---- MODULE Spec2Model ----
(***************************************************************************)
(* A model of the crawl-and-check engine of dead-links-must-die.           *)
(*                                                                         *)
(*   Spec       crawlWebsite: the bounded-concurrency page crawl           *)
(*   SpecCheck  checkLinks: the link validator run on a crawl result       *)
(*   SpecScan   performScan: the pipelined scan of the server              *)
(*   SpecAll    smartCrawl, then checkLinks on the pages it returns         *)
(*   SpecNorm   normalizeUrl applied to a URL and then to its own results   *)
(*   SpecSpa    the helper isSPA applied to a crawl result                  *)
(*   SpecFetch  fetchPage and fetchContent following the redirects of a site *)
(*   SpecSitemap  fetchAllSitemapUrls reading the sitemaps of a site          *)
(*                                                                         *)
(* JavaScript runs every piece of code between two awaits as one           *)
(* indivisible step, so one action is one such piece: an iteration of the  *)
(* main loop up to its await, the continuation of crawlPage after its      *)
(* fetch settles, an iteration of the drain loop.                          *)
(***************************************************************************)
EXTENDS Integers, Sequences, FiniteSets, TLC

VARIABLES
    baseHost,    \* crawlWebsite: baseUrl.hostname
    visited,     \* crawlWebsite: the Set visited (canonical URLs)
    toVisit,     \* crawlWebsite: the array toVisit (absolute URLs, not normalized)
    pages,       \* crawlWebsite: the array pages (PageRecords)
    crawling,    \* crawlWebsite: the Set crawling
    fetchCount,  \* per canonical URL, the number of fetchPage calls started
    settled,     \* per canonical URL, the number of fetchPage calls settled
    served,      \* per canonical URL, what the site answered (sequence of outcomes)
    emitted,     \* the PageRecords handed to onPageCrawled, in order
    appended,    \* the URLs the last step pushed on toVisit
    capSeen,     \* the main loop has left through its MAX_PAGES check
    pc,          \* crawlWebsite: "loop" | "drain" | "done" | "rejected"
    ckPages,     \* checkLinks: the argument pages
    ckCrawled,   \* checkLinks: the argument crawledPages
    ckLinks,     \* checkLinks: linksToCheckArray, <<url, occurrences>> entries
    ckFiltered,  \* checkLinks: filteredLinks
    ckSkipped,   \* checkLinks: results.summary.linksSkipped
    ckDomains,   \* checkLinks: the keys of domainGroups, in insertion order
    ckGroups,    \* checkLinks: domainGroups, hostname -> entries
    ckDead,      \* checkLinks: deadDomainLinks
    ckDom,       \* checkDomainLinks, per hostname: i, consecutiveFailures, results, position
    ckProbed,    \* the URLs handed to checkUrl, in order
    ckReport,    \* checkLinks: results
    ckOnProgress,\* checkLinks: whether the caller passed onProgress
    ckChecked,   \* checkLinks: the counter checked
    ckOnBroken,  \* checkLinks: whether the caller passed onBrokenLinkFound
    ckNotified,  \* the entries handed to onBrokenLinkFound
    ckAnswered,  \* per settled checkUrl, the URL and how its target behaved
    ckNoDns,     \* the hostnames whose DNS lookup failed
    ckPc,        \* checkLinks: "idle" | "start" | "dns" | "domains" | "done"
    scFeed,      \* performScan: the pages smartCrawl has still to hand to the page callback
    scCrawledUrls, \* performScan: the Set crawledUrls
    scCheckedUrls, \* performScan: the Set checkedUrls
    scInFlight,  \* performScan: the checkUrlInBackground calls not yet settled
    scLinksChecked, \* performScan: the counter linksChecked
    scTotalLinks,\* performScan: the counter totalLinksFound
    scLive,      \* performScan: scan.liveBrokenLinks
    scPc,        \* performScan: "idle" | "crawling" | "waiting" | "completed"
    scPages,     \* performScan: the pages smartCrawl has handed over so far
    scSummary,   \* performScan: results.summary, the counts compiled at completion
    smSitemap,   \* smartCrawl: sitemapPages
    smResult,    \* smartCrawl: the value returned
    smPc,        \* smartCrawl: "idle" | "crawl" | "sitemap" | "returned"
    nmIn,        \* normalizeUrl: the URL first passed in
    nmOut,       \* normalizeUrl: the values returned, each call fed the one before
    spArg,       \* isSPA: the argument crawlResult
    spOut,       \* isSPA: the value returned, <<>> before the call
    ftSite,      \* what the site answers to a GET of each URL
    ftKind,      \* the function fetching: "fetchPage" | "fetchContent" | "none"
    ftUrl,       \* fetchPage, fetchContent: the argument url of the call under way
    ftHops,      \* fetchPage: the argument redirectCount of the call under way
    ftPc,        \* the fetch: "idle" | "call" | "request" | "resolved" | "rejected"
    sxSite,      \* what the site answers to a GET of each sitemap URL
    sxVisited,   \* fetchAllSitemapUrls: the Set visited, shared by the nested calls
    sxStack,     \* fetchAllSitemapUrls: the calls waiting in their for loop, innermost last
    sxArg,       \* fetchAllSitemapUrls: the argument sitemapUrl of the call being entered
    sxReq,       \* fetchContent: the URL of the request under way
    sxRet,       \* fetchAllSitemapUrls: the value a call has just returned
    sxGets,      \* per sitemap URL, the GET requests sent to it: 0, 1, or 2 for more
    sxOut,       \* what the outermost call returned, <<>> before
    sxPc         \* "idle" | "enter" | "call" | "request" | "return" | "done"

crawlVars == <<baseHost, visited, toVisit, pages, crawling, fetchCount, settled,
               served, emitted, appended, capSeen, pc>>
checkVars == <<ckPages, ckCrawled, ckLinks, ckFiltered, ckSkipped, ckDomains, ckGroups,
               ckDead, ckDom, ckProbed, ckReport, ckOnProgress, ckChecked, ckOnBroken,
               ckNotified, ckAnswered, ckNoDns, ckPc>>
scanVars == <<scFeed, scCrawledUrls, scCheckedUrls, scInFlight, scLinksChecked, scTotalLinks,
              scLive, scPc, scPages, scSummary>>
smartVars == <<smSitemap, smResult, smPc>>
normVars == <<nmIn, nmOut>>
spaVars == <<spArg, spOut>>
fetchVars == <<ftSite, ftKind, ftUrl, ftHops, ftPc>>
sitemapVars == <<sxSite, sxVisited, sxStack, sxArg, sxReq, sxRet, sxGets, sxOut, sxPc>>
vars == <<baseHost, visited, toVisit, pages, crawling, fetchCount, settled,
          served, emitted, appended, capSeen, pc,
          ckPages, ckCrawled, ckLinks, ckFiltered, ckSkipped, ckDomains, ckGroups,
          ckDead, ckDom, ckProbed, ckReport, ckOnProgress, ckChecked, ckOnBroken,
          ckNotified, ckAnswered, ckNoDns, ckPc,
          scFeed, scCrawledUrls, scCheckedUrls, scInFlight, scLinksChecked, scTotalLinks,
          scLive, scPc, scPages, scSummary, smSitemap, smResult, smPc, nmIn, nmOut, spArg, spOut,
          ftSite, ftKind, ftUrl, ftHops, ftPc,
          sxSite, sxVisited, sxStack, sxArg, sxReq, sxRet, sxGets, sxOut, sxPc>>

-----------------------------------------------------------------------------
(* Bounds and scaled program constants *)

\* CRAWL_CONCURRENCY is 20 and MAX_PAGES is 10000 in the source; the model
\* runs the same code with both scaled down.
CRAWL_CONCURRENCY == 2
MAX_PAGES == 4

\* checker constants
CIRCUIT_BREAKER_THRESHOLD == 2
MAX_RETRIES == 2

-----------------------------------------------------------------------------
(* URLs.  A URL is its hostname, a path number (0 is the root path "/"),   *)
(* the number of slashes that follow the path, and whether it carries a    *)
(* fragment.  href(u) is  http://host/pN  followed by ts slashes and #f.   *)

Hosts == {"a", "b"}
Paths == 0..4
Slashes == 0..2

Url(h, p, t, f) == [host |-> h, path |-> p, ts |-> t, frag |-> f]
Urls == [host : Hosts, path : Paths, ts : Slashes, frag : BOOLEAN]
NullUrl == [host |-> "null", path |-> 0, ts |-> 0, frag |-> FALSE]

\* normalizeUrl: parsed.hash = ''; one trailing slash is cut from href when
\* href ends with '/' and pathname is not exactly '/'.
normalizeUrl(url) ==
    IF url = NullUrl THEN NullUrl
    ELSE [url EXCEPT !.frag = FALSE, !.ts = IF url.ts > 0 THEN url.ts - 1 ELSE 0]

\* hrefs as they stand in the markup: absolute, relative to the page, or
\* unparseable; label is the text of the anchor or the alt of the image
Abs(h, p, t, f, x) == [host |-> h, path |-> p, ts |-> t, frag |-> f, form |-> "abs", label |-> x]
Rel(p, t, f, x) == [host |-> "", path |-> p, ts |-> t, frag |-> f, form |-> "rel", label |-> x]
Bad(x) == [host |-> "", path |-> 0, ts |-> 0, frag |-> FALSE, form |-> "bad", label |-> x]

\* toAbsoluteUrl: new URL(url, currentPage).href, null when it throws
toAbsoluteUrl(h, currentPage) ==
    CASE h.form = "abs" -> Url(h.host, h.path, h.ts, h.frag)
      [] h.form = "rel" -> Url(currentPage.host, h.path, h.ts, h.frag)
      [] OTHER -> NullUrl

\* isInternalUrl: parsed.hostname === baseUrl.hostname
isInternalUrl(u, base) == u # NullUrl /\ u.host = base

-----------------------------------------------------------------------------
(* The site.  fetchPage(url) settles with one of the outcomes SiteMenu(url): *)
(* a rejection (timeout, connection error, too many redirects) or a         *)
(* resolution with the status, the content type, the URL the redirects      *)
(* ended at, and the a[href] and img[src] attributes of the document.  The  *)
(* family of sites is the product of the menus of its URLs.                 *)

Reject(why) ==
    [kind |-> "reject", status |-> 0, html |-> FALSE, final |-> NullUrl,
     hrefs |-> <<>>, imgs |-> <<>>, reason |-> why]
Resolve(st, isHtml, fin, hs, is) ==
    [kind |-> "resolve", status |-> st, html |-> isHtml, final |-> fin,
     hrefs |-> hs, imgs |-> is, reason |-> ""]

SiteMenu(u) ==
    CASE u.host = "a" /\ u.path = 0 ->
           { Resolve(200, TRUE, u,
                     <<Rel(1, 0, FALSE, "one"), Rel(2, 0, FALSE, "two"), Abs("b", 1, 0, FALSE, "ext")>>,
                     <<Rel(3, 0, FALSE, "logo")>>),
             Resolve(200, TRUE, u,
                     <<Rel(1, 0, FALSE, "one"), Rel(2, 0, FALSE, "two"), Rel(1, 0, TRUE, "again")>>,
                     <<>>),
             Resolve(200, TRUE, Url("b", 0, 0, FALSE),
                     <<Abs("b", 1, 0, FALSE, "www"), Rel(1, 0, FALSE, "one"), Abs("a", 2, 0, FALSE, "two"),
                       Abs("b", 0, 0, FALSE, "home")>>,
                     <<>>),
             Resolve(200, TRUE, u, <<>>, <<>>),
             Resolve(200, TRUE, u, <<>>, <<Abs("b", 3, 0, FALSE, "logo")>>),
             Resolve(200, FALSE, u, <<>>, <<>>),
             Reject("ETIMEDOUT") }
      [] u.host = "a" /\ u.path = 1 ->
           { Resolve(200, TRUE, u,
                     <<Abs("a", 3, 1, FALSE, "three"), Rel(2, 0, FALSE, ""), Bad("junk")>>, <<>>),
             Resolve(404, TRUE, u, <<Rel(3, 0, FALSE, "home")>>, <<>>),
             Resolve(500, FALSE, u, <<>>, <<>>),
             Resolve(200, TRUE, Url("b", 1, 0, FALSE),
                     <<Abs("b", 0, 0, FALSE, "home"), Rel(4, 0, FALSE, "four")>>, <<>>),
             Reject("ECONNREFUSED") }
      [] u.host = "a" /\ u.path = 2 ->
           { Resolve(200, TRUE, u,
                     <<Abs("a", 3, 0, TRUE, "three"), Abs("a", 3, 0, FALSE, "three"),
                       Abs("a", 3, 0, FALSE, "again")>>, <<>>),
             Resolve(200, TRUE, u, <<Rel(4, 0, FALSE, "four"), Rel(3, 1, FALSE, "three")>>, <<>>),
             Resolve(200, FALSE, u, <<>>, <<>>),
             Resolve(200, TRUE, Url("a", 0, 0, FALSE), <<Rel(3, 0, FALSE, "three")>>, <<>>) }
      [] u.host = "a" /\ u.path = 3 ->
           { Resolve(200, TRUE, u, <<Rel(0, 0, FALSE, "home"), Rel(4, 0, FALSE, "four")>>,
                     <<Abs("b", 0, 0, FALSE, "")>>),
             Reject("ETIMEDOUT") }
      [] u.host = "a" ->
           { Resolve(200, TRUE, u, <<>>, <<>>),
             Resolve(200, TRUE, u, <<Rel(u.path, 0, TRUE, "top"), Rel(1, 0, FALSE, "one")>>, <<>>),
             Reject("Too many redirects") }
      [] u.host = "b" /\ u.path = 1 ->
           { Resolve(200, TRUE, u, <<Abs("a", 2, 0, FALSE, "two"), Rel(0, 0, FALSE, "root")>>, <<>>),
             Resolve(200, TRUE, Url("a", 0, 0, FALSE), <<Rel(0, 0, FALSE, "root")>>, <<>>) }
      [] OTHER ->
           { Resolve(200, TRUE, u, <<Abs("b", 1, 1, FALSE, "one"), Abs("a", 1, 0, FALSE, "old")>>, <<>>) }

startUrl == Url("a", 0, 0, FALSE)

-----------------------------------------------------------------------------
(* crawlPage *)

InSeq(x, q) == \E i \in DOMAIN q : q[i] = x

\* a guard that forgets the visited set
AlreadyClaimed_CrawlingOnly(n, vis, crw) == n = NullUrl \/ n \in crw

\* crawlPage's guard: a URL that is visited or being crawled is not fetched
AlreadyClaimed(n, vis, crw) == n = NullUrl \/ n \in vis \/ n \in crw

\* a start that leaves the marking of visited to the end of the fetch
crawlPageStart_MarkLate(st, url) ==
    LET n == normalizeUrl(url) IN
    IF n = NullUrl \/ n \in st.visited \/ n \in st.crawling THEN st
    ELSE [visited |-> st.visited,
          crawling |-> st.crawling \cup {n},
          fetchCount |-> [st.fetchCount EXCEPT ![n] = @ + 1]]

\* crawlPage up to its await: check, mark, start the fetch
crawlPageStart(st, url) ==
    LET n == normalizeUrl(url) IN
    IF AlreadyClaimed(n, st.visited, st.crawling) THEN st
    ELSE [visited |-> st.visited \cup {n},
          crawling |-> st.crawling \cup {n},
          fetchCount |-> [st.fetchCount EXCEPT ![n] = @ + 1]]

RECURSIVE StartBatch(_, _)
StartBatch(st, batch) ==
    IF batch = <<>> THEN st
    ELSE StartBatch(crawlPageStart(st, Head(batch)), Tail(batch))

\* the test with the crawling set asked about the page being processed, which
\* is in it whenever it is not empty
ShouldEnqueue_Typo(absoluteUrl, base, vis, crw, queue) ==
    /\ isInternalUrl(absoluteUrl, base)
    /\ normalizeUrl(absoluteUrl) # NullUrl
    /\ normalizeUrl(absoluteUrl) \notin vis
    /\ crw = {}
    /\ ~InSeq(absoluteUrl, queue)

\* a test that classifies the reference against the origin the crawl had
\* before the response
ShouldEnqueue_OldOrigin(absoluteUrl, base, vis, crw, queue) ==
    /\ isInternalUrl(absoluteUrl, baseHost)
    /\ normalizeUrl(absoluteUrl) # NullUrl
    /\ normalizeUrl(absoluteUrl) \notin vis
    /\ normalizeUrl(absoluteUrl) \notin crw
    /\ ~InSeq(absoluteUrl, queue)

\* the test that guards toVisit.push in the a[href] loop
ShouldEnqueue(absoluteUrl, base, vis, crw, queue) ==
    /\ isInternalUrl(absoluteUrl, base)
    /\ normalizeUrl(absoluteUrl) # NullUrl
    /\ normalizeUrl(absoluteUrl) \notin vis
    /\ normalizeUrl(absoluteUrl) \notin crw
    /\ ~InSeq(absoluteUrl, queue)

\* the a[href] loop: acc is [queue, links, new]
RECURSIVE ExtractLinks(_, _, _, _, _, _)
ExtractLinks(acc, hrefs, page, base, vis, crw) ==
    IF hrefs = <<>> THEN acc
    ELSE LET h == Head(hrefs)
             absoluteUrl == toAbsoluteUrl(h, page)
             ref == [url |-> absoluteUrl,
                     text |-> IF h.label = "" THEN "(no text)" ELSE h.label,
                     type |-> "link"]
             push == ShouldEnqueue(absoluteUrl, base, vis, crw, acc.queue)
             next == IF absoluteUrl = NullUrl THEN acc
                     ELSE [queue |-> IF push THEN Append(acc.queue, absoluteUrl) ELSE acc.queue,
                           links |-> Append(acc.links, ref),
                           new |-> IF push THEN Append(acc.new, absoluteUrl) ELSE acc.new]
         IN ExtractLinks(next, Tail(hrefs), page, base, vis, crw)

\* the img[src] loop
RECURSIVE ExtractImages(_, _, _)
ExtractImages(acc, srcs, page) ==
    IF srcs = <<>> THEN acc
    ELSE LET h == Head(srcs)
             absoluteUrl == toAbsoluteUrl(h, page)
             ref == [url |-> absoluteUrl,
                     text |-> IF h.label = "" THEN "(no alt text)" ELSE h.label,
                     type |-> "image"]
         IN ExtractImages(IF absoluteUrl = NullUrl THEN acc ELSE Append(acc, ref),
                          Tail(srcs), page)

\* baseUrl after a response: finalUrl differs from the requested URL and its
\* hostname differs from baseUrl's
NewBase(base, n, r) ==
    IF r.final # NullUrl /\ r.final # n /\ r.final.host # base THEN r.final.host ELSE base

\* the PageRecord of a page that loaded
PageData(n, links, images) ==
    [url |-> n, links |-> links \o images, linksCount |-> Len(links),
     imagesCount |-> Len(images), error |-> ""]

\* a catch branch that records the failure and throws it on
OnFetchError_Rethrow(n, why) ==
    [page |-> [url |-> n, links |-> <<>>, linksCount |-> 0, imagesCount |-> 0, error |-> why],
     abort |-> TRUE]

\* the catch branch: the PageRecord of a page that failed to load; abort tells
\* whether the error leaves crawlPage
OnFetchError(n, why) ==
    [page |-> [url |-> n, links |-> <<>>, linksCount |-> 0, imagesCount |-> 0, error |-> why],
     abort |-> FALSE]

\* whether crawlPage treats the settled fetch as a failure: fetchPage rejects
\* on a transport error, a timeout and too many redirects, and resolves with
\* whatever status the server sent
FetchFailed_Never(r) == FALSE
FetchFailed(r) == r.kind = "reject"

\* whether the response is processed as a page
IsHtmlPage_Always(r) == TRUE
IsHtmlPage(r) == r.html

\* a callback that is told of loaded pages only
onPageCrawled_LoadedOnly(em, pageData) ==
    IF pageData.error # "" THEN em ELSE Append(em, pageData)

\* `if (onPageCrawled) onPageCrawled(pageData)`, with the callback the caller
\* passed: em is what the callback has received so far
onPageCrawled(em, pageData) == Append(em, pageData)

-----------------------------------------------------------------------------
(* crawlWebsite *)

Canon == {u \in Urls : ~u.frag}
Min(x, y) == IF x <= y THEN x ELSE y
InFlight(n) == fetchCount[n] - settled[n]
RECURSIVE SumInFlight(_)
SumInFlight(S) ==
    IF S = {} THEN 0
    ELSE LET n == CHOOSE x \in S : TRUE IN InFlight(n) + SumInFlight(S \ {n})
InFlightTotal == SumInFlight({n \in Canon : InFlight(n) > 0})

CkHosts == Hosts \cup {"x"}
NoDomain == [i |-> 0, consecutiveFailures |-> 0, checked |-> 0, broken |-> <<>>,
             warnings |-> <<>>, redirects |-> <<>>, circuitBroken |-> FALSE, at |-> "none"]
NoReport == [warnings |-> <<>>, redirects |-> <<>>,
             totalLinks |-> 0, linksChecked |-> 0, linksSkipped |-> 0, workingLinks |-> 0,
             brokenLinks |-> <<>>]

CheckFresh ==
    /\ ckLinks = <<>> /\ ckFiltered = <<>> /\ ckSkipped = 0 /\ ckDomains = <<>>
    /\ ckGroups = [d \in CkHosts |-> <<>>] /\ ckDead = <<>>
    /\ ckDom = [d \in CkHosts |-> NoDomain] /\ ckProbed = <<>> /\ ckReport = NoReport
    /\ ckChecked = 0 /\ ckNotified = {} /\ ckAnswered = <<>> /\ ckNoDns = {}

CheckIdle ==
    ckPages = <<>> /\ ckCrawled = {} /\ ckOnProgress = FALSE /\ ckOnBroken = FALSE
    /\ CheckFresh /\ ckPc = "idle"

NoSummary == [totalLinks |-> 0, linksChecked |-> 0, linksSkipped |-> 0, workingLinks |-> 0,
              brokenLinks |-> 0, totalPages |-> 0]
ScanFresh ==
    /\ scCrawledUrls = {} /\ scCheckedUrls = {} /\ scInFlight = {}
    /\ scLinksChecked = 0 /\ scTotalLinks = 0 /\ scLive = <<>> /\ scPages = <<>>
    /\ scSummary = NoSummary

ScanIdle == scFeed = <<>> /\ ScanFresh /\ scPc = "idle"

NoResult == [pages |-> <<>>, method |-> "", isSPA |-> FALSE]
SmartFresh == smSitemap = <<>> /\ smResult = NoResult
SmartIdle == SmartFresh /\ smPc = "idle"
NormIdle == nmIn = NullUrl /\ nmOut = <<>>
NullResult == [pages |-> <<>>, kind |-> "null"]
SpaIdle == spArg = NullResult /\ spOut = <<>>
FetchIdle ==
    ftSite = <<>> /\ ftKind = "none" /\ ftUrl = NullUrl /\ ftHops = 0 /\ ftPc = "idle"
SitemapIdle ==
    /\ sxSite = <<>> /\ sxVisited = {} /\ sxStack = <<>> /\ sxArg = 0 /\ sxReq = 0
    /\ sxRet = <<>> /\ sxGets = <<>> /\ sxOut = <<>> /\ sxPc = "idle"

Init ==
    /\ baseHost = startUrl.host
    /\ visited = {}
    /\ toVisit = <<startUrl>>
    /\ pages = <<>>
    /\ crawling = {}
    /\ fetchCount = [n \in Canon |-> 0]
    /\ settled = [n \in Canon |-> 0]
    /\ served = [n \in Canon |-> <<>>]
    /\ emitted = <<>>
    /\ appended = <<>>
    /\ capSeen = FALSE
    /\ pc = "loop"
    /\ CheckIdle
    /\ ScanIdle
    /\ SmartFresh
    /\ smPc = "crawl"
    /\ NormIdle
    /\ SpaIdle
    /\ FetchIdle
    /\ SitemapIdle

\* a batch size that ignores the crawls in flight
BatchSize_IgnoresInFlight == Min(CRAWL_CONCURRENCY, Len(toVisit))

\* the size of the next batch
BatchSize == Min(CRAWL_CONCURRENCY - Cardinality(crawling), Len(toVisit))

\* a limit that lets one more page through
LimitReached_OffByOne == Cardinality(visited) > MAX_PAGES

\* whether the main loop stops at its page limit
LimitReached == Cardinality(visited) >= MAX_PAGES

\* one iteration of the main loop, up to its await
MainLoop ==
    /\ pc = "loop"
    /\ IF ~(Len(toVisit) > 0 \/ Cardinality(crawling) > 0)
       THEN /\ pc' = "drain"
            /\ UNCHANGED <<visited, toVisit, crawling, fetchCount, capSeen>>
       ELSE IF LimitReached
       THEN /\ pc' = "drain"
            /\ capSeen' = TRUE
            /\ UNCHANGED <<visited, toVisit, crawling, fetchCount>>
       ELSE IF BatchSize <= 0
       THEN UNCHANGED <<visited, toVisit, crawling, fetchCount, capSeen, pc>>
       ELSE LET batch == SubSeq(toVisit, 1, BatchSize)
                st == StartBatch([visited |-> visited, crawling |-> crawling,
                                  fetchCount |-> fetchCount], batch)
            IN /\ toVisit' = SubSeq(toVisit, BatchSize + 1, Len(toVisit))
               /\ visited' = st.visited
               /\ crawling' = st.crawling
               /\ fetchCount' = st.fetchCount
               /\ UNCHANGED <<capSeen, pc>>
    /\ appended' = <<>>
    /\ UNCHANGED <<baseHost, pages, settled, served, emitted>>
    /\ UNCHANGED <<checkVars, scanVars, smartVars, normVars, spaVars, fetchVars, sitemapVars>>

\* the rest of crawlPage, run when the fetch of n settles with outcome r
FetchSettle(n, r) ==
    /\ pc \in {"loop", "drain"}
    /\ InFlight(n) > 0
    /\ settled' = [settled EXCEPT ![n] = @ + 1]
    /\ served' = [served EXCEPT ![n] = Append(@, r)]
    /\ IF FetchFailed(r)
       THEN LET e == OnFetchError(n, r.reason) IN
            /\ pages' = Append(pages, e.page)
            /\ crawling' = crawling \ {n}
            /\ emitted' = onPageCrawled(emitted, e.page)
            /\ pc' = IF e.abort THEN "rejected" ELSE pc
            /\ appended' = <<>>
            /\ UNCHANGED <<baseHost, toVisit>>
       ELSE LET base == NewBase(baseHost, n, r) IN
            /\ baseHost' = base
            /\ IF ~IsHtmlPage(r)
               THEN /\ crawling' = crawling \ {n}
                    /\ appended' = <<>>
                    /\ UNCHANGED <<toVisit, pages, emitted, pc>>
               ELSE LET ex == ExtractLinks([queue |-> toVisit, links |-> <<>>, new |-> <<>>],
                                           r.hrefs, n, base, visited, crawling)
                        images == ExtractImages(<<>>, r.imgs, n)
                        pageData == PageData(n, ex.links, images)
                    IN /\ toVisit' = ex.queue
                       /\ appended' = ex.new
                       /\ pages' = Append(pages, pageData)
                       /\ crawling' = crawling \ {n}
                       /\ emitted' = onPageCrawled(emitted, pageData)
                       /\ UNCHANGED pc
    /\ UNCHANGED <<visited, fetchCount, capSeen>>
    /\ UNCHANGED <<checkVars, scanVars, smartVars, normVars, spaVars, fetchVars, sitemapVars>>

\* a return that does not wait for the crawls in flight
DrainLoop_NoWait ==
    /\ pc = "drain"
    /\ pc' = "done"
    /\ appended' = <<>>
    /\ UNCHANGED <<baseHost, visited, toVisit, pages, crawling, fetchCount, settled,
                   served, emitted, capSeen>>
    /\ UNCHANGED <<checkVars, scanVars, smartVars, normVars, spaVars, fetchVars, sitemapVars>>

\* one iteration of the loop that waits for the remaining crawls, and the return
DrainLoop ==
    /\ pc = "drain"
    /\ pc' = IF Cardinality(crawling) > 0 THEN "drain" ELSE "done"
    /\ appended' = <<>>
    /\ UNCHANGED <<baseHost, visited, toVisit, pages, crawling, fetchCount, settled,
                   served, emitted, capSeen>>
    /\ UNCHANGED <<checkVars, scanVars, smartVars, normVars, spaVars, fetchVars, sitemapVars>>

Settle == \E n \in Canon : \E r \in SiteMenu(n) : FetchSettle(n, r)

Next == MainLoop \/ Settle \/ DrainLoop

Spec == Init /\ [][Next]_vars

\* every started fetch settles, and the timers of the two loops fire
FairSpec == Spec /\ WF_vars(MainLoop) /\ WF_vars(Settle) /\ WF_vars(DrainLoop)

-----------------------------------------------------------------------------
(* checkLinks *)

\* the index of url in the entries, 0 when absent (Map.has / Map.get)
EntryIndex_NeverFound(entries, url) == 0
EntryIndex(entries, url) ==
    IF \E i \in DOMAIN entries : entries[i].url = url
    THEN CHOOSE i \in DOMAIN entries : entries[i].url = url
    ELSE 0

\* linksToCheck after the links of one page: url -> [{page, link}], keyed by
\* link.url as it stands in the page
RECURSIVE CollectPage(_, _, _)
CollectPage(entries, page, links) ==
    IF links = <<>> THEN entries
    ELSE CHOOSE after \in
            { LET link == Head(ls)
                  at == EntryIndex(map, link.url)
                  occ == [page |-> page, link |-> link]
                  next == IF at = 0
                          THEN Append(map, [url |-> link.url, occ |-> <<occ>>])
                          ELSE [map EXCEPT ![at].occ = Append(@, occ)]
              IN CollectPage(next, page, Tail(ls)) : map \in {entries}, ls \in {links} } : TRUE

RECURSIVE CollectLinks(_, _)
CollectLinks(entries, ps) ==
    IF ps = <<>> THEN entries
    ELSE CollectLinks(CollectPage(entries, Head(ps).url, Head(ps).links), Tail(ps))

\* the filter that drops the links already crawled
AlreadyCrawled(url, crawledPages) == url \in crawledPages

RECURSIVE FilterLinks(_, _)
FilterLinks(entries, crawledPages) ==
    IF entries = <<>> THEN <<>>
    ELSE IF AlreadyCrawled(Head(entries).url, crawledPages)
         THEN FilterLinks(Tail(entries), crawledPages)
         ELSE <<Head(entries)>> \o FilterLinks(Tail(entries), crawledPages)

\* getDomain: the hostname
getDomain(url) == IF url = NullUrl THEN "" ELSE url.host

RECURSIVE DomainsOf(_, _)
DomainsOf(entries, seen) ==
    IF entries = <<>> THEN seen
    ELSE LET d == getDomain(Head(entries).url) IN
         DomainsOf(Tail(entries), IF d = "" \/ InSeq(d, seen) THEN seen ELSE Append(seen, d))

RECURSIVE GroupOf(_, _)
GroupOf(entries, d) ==
    IF entries = <<>> THEN <<>>
    ELSE IF getDomain(Head(entries).url) = d
         THEN <<Head(entries)>> \o GroupOf(Tail(entries), d)
         ELSE GroupOf(Tail(entries), d)

\* occurrences.map(o => ({page, text, type}))
RECURSIVE Occurrences(_)
Occurrences(occ) ==
    IF occ = <<>> THEN <<>>
    ELSE <<[page |-> Head(occ).page, text |-> Head(occ).link.text, type |-> Head(occ).link.type]>>
         \o Occurrences(Tail(occ))

Verdict(e, st, msg) ==
    [url |-> e.url, status |-> st, message |-> msg, occurrences |-> Occurrences(e.occ)]

RECURSIVE VerdictsOf(_, _, _)
VerdictsOf(entries, st, msg) ==
    IF entries = <<>> THEN <<>>
    ELSE <<Verdict(Head(entries), st, msg)>> \o VerdictsOf(Tail(entries), st, msg)

\* checkDomainDNS: localhost and loopback always exist; other names resolve or not
DnsMayFail(d) == d \in {"b", "x"}

\* the results of checkUrlWithMethod
UrlOk(st, url) ==
    [status |-> st, message |-> <<>>, ok |-> TRUE, redirected |-> FALSE, finalUrl |-> url]
UrlMoved(st, fin) ==
    [status |-> st, message |-> <<>>, ok |-> TRUE, redirected |-> TRUE, finalUrl |-> fin]
UrlNotOk(st, msg) ==
    [status |-> st, message |-> <<msg>>, ok |-> FALSE, redirected |-> FALSE, finalUrl |-> NullUrl]

\* how a target behaves towards one request: it answers with a status, having
\* led the request to the URL final, or the request fails in transport
Answer(st, fin) == [kind |-> "response", status |-> st, final |-> fin, reason |-> ""]
NetError(code) == [kind |-> "error", status |-> 0, final |-> NullUrl, reason |-> code]

\* a target: its behaviour towards the HEAD and the GET of each attempt
Target(hs, gs) == [head |-> hs, get |-> gs]
Stable(h, g) == Target([k \in 1..(MAX_RETRIES + 1) |-> h], [k \in 1..(MAX_RETRIES + 1) |-> g])

getStatusMessage(status) ==
    CASE status = 400 -> "Bad Request"
      [] status = 401 -> "Unauthorized"
      [] status = 403 -> "Forbidden"
      [] status = 404 -> "Not Found"
      [] status = 405 -> "Method Not Allowed"
      [] status = 408 -> "Request Timeout"
      [] status = 410 -> "Gone"
      [] status = 500 -> "Internal Server Error"
      [] status = 502 -> "Bad Gateway"
      [] status = 503 -> "Service Unavailable"
      [] status = 504 -> "Gateway Timeout"
      [] OTHER -> "HTTP " \o ToString(status)

\* checkUrlWithMethod: one request and what is made of its outcome o
checkUrlWithMethod(url, o) ==
    IF o.kind = "error" THEN UrlNotOk(0, o.reason)
    ELSE IF o.status >= 200 /\ o.status < 400
         THEN IF o.final # NullUrl /\ o.final # url
              THEN UrlMoved(o.status, o.final)
              ELSE UrlOk(o.status, url)
         ELSE UrlNotOk(o.status, getStatusMessage(o.status))

\* checkUrl from the given attempt on: HEAD, the GET fallback, the retries
\* a checkUrl that settles for the outcome of its first HEAD request
checkUrlFrom_GivesUpAtOnce(url, target, attempt) ==
    checkUrlWithMethod(url, target.head[attempt + 1])
RECURSIVE checkUrlFrom(_, _, _)
checkUrlFrom(url, target, attempt) ==
    LET headResult == checkUrlWithMethod(url, target.head[attempt + 1])
        getResult == checkUrlWithMethod(url, target.get[attempt + 1])
    IN IF headResult.ok \/ headResult.status >= 400 THEN headResult
       ELSE IF /\ headResult.status \in {404, 405, 0}
               /\ getResult.ok
            THEN getResult
       ELSE IF attempt = MAX_RETRIES THEN headResult
       ELSE IF headResult.status = 0 THEN checkUrlFrom(url, target, attempt + 1)
       ELSE headResult

checkUrl(url, target) == checkUrlFrom(url, target, 0)

\* the number of attempts checkUrl makes, each opening with a HEAD request
RECURSIVE AttemptsFrom(_, _, _)
AttemptsFrom(url, target, attempt) ==
    LET headResult == checkUrlWithMethod(url, target.head[attempt + 1])
        getResult == checkUrlWithMethod(url, target.get[attempt + 1])
    IN IF headResult.ok \/ headResult.status >= 400 THEN attempt + 1
       ELSE IF headResult.status \in {404, 405, 0} /\ getResult.ok THEN attempt + 1
       ELSE IF attempt = MAX_RETRIES THEN attempt + 1
       ELSE IF headResult.status = 0 THEN AttemptsFrom(url, target, attempt + 1)
       ELSE attempt + 1

Attempts(url, target) == AttemptsFrom(url, target, 0)

\* the number of GET requests checkUrl makes from the given attempt on
RECURSIVE GetRequestsFrom(_, _, _)
GetRequestsFrom(url, target, attempt) ==
    LET headResult == checkUrlWithMethod(url, target.head[attempt + 1])
        getResult == checkUrlWithMethod(url, target.get[attempt + 1])
    IN IF headResult.ok \/ headResult.status >= 400 THEN 0
       ELSE IF headResult.status \in {404, 405, 0}
            THEN IF getResult.ok \/ attempt = MAX_RETRIES THEN 1
                 ELSE IF headResult.status = 0
                      THEN 1 + GetRequestsFrom(url, target, attempt + 1)
                      ELSE 1
       ELSE 0

GetRequests(url, target) == GetRequestsFrom(url, target, 0)

\* the targets a URL may turn out to be
TargetMenu(url) ==
    CASE url.host = "a" ->
           { Stable(Answer(200, url), Answer(200, url)),
             Stable(Answer(404, url), Answer(404, url)) }
      [] url.host = "b" ->
           { Stable(NetError("ETIMEDOUT"), Answer(200, url)),
             Stable(Answer(200, Url("b", 0, 0, FALSE)), Answer(200, Url("b", 0, 0, FALSE))),
             Stable(Answer(403, url), Answer(403, url)),
             Stable(NetError("ECONNABORTED"), NetError("ECONNABORTED")) }
      [] OTHER ->
           { Stable(Answer(200, [url EXCEPT !.host = "www.x"]),
                    Answer(200, [url EXCEPT !.host = "www.x"])),
             Stable(Answer(500, url), Answer(500, url)),
             Stable(Answer(401, url), Answer(401, url)),
             Stable(Answer(405, url), Answer(200, url)),
             Stable(NetError("ETIMEDOUT"), NetError("ETIMEDOUT")),
             Target(<<NetError("ECONNRESET"), Answer(418, url), Answer(418, url)>>,
                    <<NetError("ECONNRESET"), Answer(418, url), Answer(418, url)>>) }

\* what checkUrl may answer for a URL
CheckUrlMenu(url) == {checkUrl(url, t) : t \in TargetMenu(url)}

\* isTrivialRedirect: the hostnames agree once a leading www. is dropped, and
\* the pathnames agree as they are or once one trailing slash is dropped
StripWww(h) ==
    CASE h = "www.a" -> "a" [] h = "www.b" -> "b" [] h = "www.x" -> "x" [] OTHER -> h
PathSlashes(u) == IF u.path = 0 THEN u.ts + 1 ELSE u.ts
isTrivialRedirect(originalUrl, finalUrl) ==
    /\ finalUrl # NullUrl
    /\ StripWww(originalUrl.host) = StripWww(finalUrl.host)
    /\ originalUrl.path = finalUrl.path
    /\ \/ PathSlashes(originalUrl) = PathSlashes(finalUrl)
       \/ LET cut(u) == IF PathSlashes(u) > 0 THEN PathSlashes(u) - 1 ELSE 0
          IN cut(originalUrl) = cut(finalUrl)

MessageIncludes(message, what) == \E k \in DOMAIN message : message[k] = what

\* the classification of a result that is not ok
IsWarning_Only403(r) == ~r.ok /\ r.status = 403
IsWarning(r) == ~r.ok /\ (r.status = 403 \/ r.status = 401)
IsBroken_ClientOnly(r) == ~r.ok /\ ~IsWarning(r) /\ r.status < 500
IsBroken(r) == ~r.ok /\ ~IsWarning(r)

\* one iteration of checkDomainLinks from the answer of checkUrl to the delay
AfterProbe_StopsOnError(st, links, r) ==
    [st EXCEPT !.checked = @ + 1,
               !.broken = IF IsBroken(r) THEN Append(@, Verdict(links[st.i], r.status, r.message))
                          ELSE @,
               !.at = IF st.i < Len(links) /\ r.status # 0 THEN "delay" ELSE "done"]
\* an iteration that counts the failures and never takes the count back
AfterProbe_NeverResets(st, links, r) ==
    [st EXCEPT !.checked = @ + 1,
               !.consecutiveFailures = IF r.status = 0 THEN @ + 1 ELSE @,
               !.at = IF st.i < Len(links) THEN "delay" ELSE "done"]
AfterProbe(st, links, r) ==
    LET e == links[st.i]
        failed == r.status = 0 \/ MessageIncludes(r.message, "ECONNABORTED")
        warn == IsWarning(r)
        bad == IsBroken(r)
        moved == r.ok /\ r.redirected /\ ~isTrivialRedirect(e.url, r.finalUrl)
    IN [st EXCEPT
          !.checked = @ + 1,
          !.consecutiveFailures = IF failed THEN @ + 1 ELSE 0,
          !.warnings = IF warn
                       THEN Append(@, Verdict(e, r.status,
                                       r.message \o <<" (may be accessible to users)">>))
                       ELSE @,
          !.broken = IF bad THEN Append(@, Verdict(e, r.status, r.message)) ELSE @,
          !.redirects = IF moved
                        THEN Append(@, [url |-> e.url, occurrences |-> Occurrences(e.occ),
                                        redirectTo |-> r.finalUrl])
                        ELSE @,
          !.at = IF st.i < Len(links) THEN "delay" ELSE "done"]

\* the top of the next iteration: the circuit breaker, or the next checkUrl
AfterDelay_NoBreaker(st, links) == [st EXCEPT !.i = @ + 1, !.at = "probe"]
AfterDelay(st, links) ==
    IF st.consecutiveFailures >= CIRCUIT_BREAKER_THRESHOLD
    THEN [st EXCEPT !.i = @ + 1, !.circuitBroken = TRUE,
                    !.warnings = @ \o VerdictsOf(SubSeq(links, st.i + 1, Len(links)), 0,
                                                 <<"Unable to verify (domain rate limited)">>),
                    !.at = "done"]
    ELSE [st EXCEPT !.i = @ + 1, !.at = "probe"]

RECURSIVE DeadLinks(_, _, _)
DeadLinks(domains, dead, groups) ==
    IF domains = <<>> THEN <<>>
    ELSE (IF Head(domains) \in dead
          THEN VerdictsOf(groups[Head(domains)], 0, <<"DNS lookup failed: ", "ENOTFOUND">>)
          ELSE <<>>) \o DeadLinks(Tail(domains), dead, groups)

\* the keys of domainGroups after the dead domains are deleted
LiveDomains_KeepsDead(domains, dead) == domains
LiveDomains(domains, dead) == SelectSeq(domains, LAMBDA d : d \notin dead)

RECURSIVE Merge(_, _, _)
Merge(domains, dom, field) ==
    IF domains = <<>> THEN <<>> ELSE dom[Head(domains)][field] \o Merge(Tail(domains), dom, field)

\* checkLinks up to the await of the DNS pre-checks
CheckStart ==
    /\ ckPc = "start"
    /\ ckLinks' = CollectLinks(<<>>, ckPages)
    /\ ckFiltered' = FilterLinks(ckLinks', ckCrawled)
    /\ ckSkipped' = Len(ckLinks') - Len(ckFiltered')
    /\ ckDomains' = DomainsOf(ckFiltered', <<>>)
    /\ ckGroups' = [d \in CkHosts |-> GroupOf(ckFiltered', d)]
    /\ ckPc' = "dns"
    /\ UNCHANGED <<ckPages, ckCrawled, ckDead, ckDom, ckProbed, ckReport, ckOnProgress, ckChecked,
                   ckOnBroken, ckNotified, ckAnswered, ckNoDns>>
    /\ UNCHANGED <<crawlVars, scanVars, smartVars, normVars, spaVars, fetchVars, sitemapVars>>

\* the DNS pre-checks settle; every live domain starts its first checkUrl
DnsSettle(dead) ==
    /\ ckPc = "dns"
    /\ \A d \in dead : InSeq(d, ckDomains) /\ DnsMayFail(d)
    /\ LET live == LiveDomains(ckDomains, dead)
           deadDomainLinks == DeadLinks(ckDomains, dead, ckGroups)
       IN /\ ckDead' = deadDomainLinks
          /\ ckDomains' = live
          /\ ckGroups' = [d \in CkHosts |-> IF InSeq(d, live) THEN ckGroups[d] ELSE <<>>]
          /\ ckReport' = [NoReport EXCEPT !.totalLinks = Len(ckLinks),
                                          !.linksSkipped = ckSkipped,
                                          !.brokenLinks = deadDomainLinks]
          /\ ckChecked' = Len(deadDomainLinks)
          /\ ckDom' = [d \in CkHosts |->
                         IF InSeq(d, live) THEN [NoDomain EXCEPT !.i = 1, !.at = "probe"]
                         ELSE NoDomain]
          /\ ckProbed' = ckProbed \o [k \in 1..Len(live) |-> ckGroups[live[k]][1].url]
    /\ ckNoDns' = dead
    /\ ckPc' = "domains"
    /\ UNCHANGED <<ckPages, ckCrawled, ckLinks, ckFiltered, ckSkipped, ckOnProgress,
                   ckOnBroken, ckNotified, ckAnswered>>
    /\ UNCHANGED <<crawlVars, scanVars, smartVars, normVars, spaVars, fetchVars, sitemapVars>>

\* a checkUrl settles: the rest of that iteration of checkDomainLinks
ProbeSettle(d, target) ==
    /\ ckPc = "domains"
    /\ ckDom[d].at = "probe"
    /\ LET e == ckGroups[d][ckDom[d].i]
           r == checkUrl(e.url, target)
       IN /\ ckDom' = [ckDom EXCEPT ![d] = AfterProbe(@, ckGroups[d], r)]
          /\ ckNotified' = IF ckOnBroken /\ IsBroken(r)
                           THEN ckNotified \cup {Verdict(e, r.status, r.message)}
                           ELSE ckNotified
          /\ ckAnswered' = ckAnswered @@ (e.url :> target)
    /\ ckChecked' = IF ckOnProgress THEN ckChecked + 1 ELSE ckChecked
    /\ UNCHANGED <<ckPages, ckCrawled, ckLinks, ckFiltered, ckSkipped, ckDomains, ckGroups,
                   ckDead, ckProbed, ckReport, ckOnProgress, ckOnBroken, ckNoDns, ckPc>>
    /\ UNCHANGED <<crawlVars, scanVars, smartVars, normVars, spaVars, fetchVars, sitemapVars>>

\* the delay between two requests to a domain is over
DelayOver(d) ==
    /\ ckPc = "domains"
    /\ ckDom[d].at = "delay"
    /\ ckDom' = [ckDom EXCEPT ![d] = AfterDelay(@, ckGroups[d])]
    /\ ckProbed' = IF ckDom'[d].at = "probe"
                   THEN Append(ckProbed, ckGroups[d][ckDom'[d].i].url)
                   ELSE ckProbed
    /\ UNCHANGED <<ckPages, ckCrawled, ckLinks, ckFiltered, ckSkipped, ckDomains, ckGroups,
                   ckDead, ckReport, ckOnProgress, ckChecked, ckOnBroken, ckNotified,
                   ckAnswered, ckNoDns, ckPc>>
    /\ UNCHANGED <<crawlVars, scanVars, smartVars, normVars, spaVars, fetchVars, sitemapVars>>

\* every domain has returned: merge and summarise
CheckFinish ==
    /\ ckPc = "domains"
    /\ \A k \in DOMAIN ckDomains : ckDom[ckDomains[k]].at = "done"
    /\ LET broken == ckReport.brokenLinks \o Merge(ckDomains, ckDom, "broken")
           redirects == Merge(ckDomains, ckDom, "redirects")
           warnings == Merge(ckDomains, ckDom, "warnings")
       IN ckReport' = [ckReport EXCEPT
                          !.brokenLinks = broken,
                          !.redirects = redirects,
                          !.warnings = warnings,
                          !.linksChecked = ckChecked + ckReport.linksSkipped,
                          !.workingLinks = ckReport.totalLinks - Len(broken)
                                             - Len(redirects) - Len(warnings)]
    /\ ckPc' = "done"
    /\ UNCHANGED <<ckPages, ckCrawled, ckLinks, ckFiltered, ckSkipped, ckDomains, ckGroups,
                   ckDead, ckDom, ckProbed, ckOnProgress, ckChecked, ckOnBroken, ckNotified,
                   ckAnswered, ckNoDns>>
    /\ UNCHANGED <<crawlVars, scanVars, smartVars, normVars, spaVars, fetchVars, sitemapVars>>

\* the pages handed to checkLinks: the start page with up to MaxLinks
\* references in document order, and possibly a second page
MaxLinks == 3
RefUrls == <<Url("a", 1, 0, FALSE), Url("a", 1, 0, TRUE), Url("a", 1, 1, FALSE),
             Url("b", 1, 0, FALSE), Url("b", 2, 0, FALSE), Url("b", 3, 0, FALSE),
             Url("x", 1, 0, FALSE)>>
Ref(u, x) == [url |-> u, text |-> x, type |-> IF u.host = "x" THEN "image" ELSE "link"]
RefLists ==
    {SelectSeq([k \in DOMAIN RefUrls |-> Ref(RefUrls[k], "t")], LAMBDA l : l.url \in S) :
        S \in {T \in SUBSET {RefUrls[k] : k \in DOMAIN RefUrls} : Cardinality(T) <= MaxLinks}}
SecondPages ==
    {<<>>,
     <<PageData(Url("a", 1, 0, FALSE), <<Ref(Url("b", 1, 0, FALSE), "other")>>, <<>>)>>,
     <<PageData(Url("a", 1, 0, FALSE), <<Ref(Url("a", 0, 0, TRUE), "top")>>, <<>>)>>}
PageUrls(ps) == {ps[k].url : k \in DOMAIN ps}

\* no crawlWebsite call of this module's own is under way
CrawlRested ==
    /\ baseHost = startUrl.host
    /\ visited = {}
    /\ toVisit = <<>>
    /\ pages = <<>>
    /\ crawling = {}
    /\ fetchCount = [n \in Canon |-> 0]
    /\ settled = [n \in Canon |-> 0]
    /\ served = [n \in Canon |-> <<>>]
    /\ emitted = <<>>
    /\ appended = <<>>
    /\ capSeen = FALSE
    /\ pc = "done"

InitCheck ==
    /\ CrawlRested
    /\ \E ls \in RefLists : \E second \in SecondPages :
          ckPages = <<PageData(normalizeUrl(startUrl), ls, <<>>)>> \o second
    /\ \E more \in {{}, {Url("a", 1, 0, FALSE)}} : ckCrawled = PageUrls(ckPages) \cup more
    /\ ckOnProgress \in BOOLEAN
    /\ ckOnBroken \in BOOLEAN
    /\ CheckFresh
    /\ ckPc = "start"
    /\ ScanIdle
    /\ SmartIdle
    /\ NormIdle
    /\ SpaIdle
    /\ FetchIdle
    /\ SitemapIdle

Dns == \E dead \in SUBSET CkHosts : DnsSettle(dead)
Probe ==
    \E d \in CkHosts :
        /\ ckDom[d].at = "probe"
        /\ \E target \in TargetMenu(ckGroups[d][ckDom[d].i].url) : ProbeSettle(d, target)
Delay == \E d \in CkHosts : DelayOver(d)

NextCheck == CheckStart \/ Dns \/ Probe \/ Delay \/ CheckFinish

SpecCheck == InitCheck /\ [][NextCheck]_vars

-----------------------------------------------------------------------------
(* performScan: the pipelined scan of the server *)

\* what checkUrlInBackground returns, and whether it pushed the link on
\* scan.liveBrokenLinks
Background(st, msg, ok, live) == [status |-> st, message |-> msg, ok |-> ok, live |-> live]

\* checkUrlInBackground from the given attempt on
RECURSIVE backgroundFrom(_, _, _)
backgroundFrom(url, target, attempt) ==
    LET head == target.head[attempt + 1]
        get == target.get[attempt + 1]
        ok == head.status >= 200 /\ head.status < 400
        getOk == get.status >= 200 /\ get.status < 400
    IN IF head.kind = "error"
       THEN IF attempt < MAX_RETRIES
            THEN backgroundFrom(url, target, attempt + 1)
            ELSE Background(0, <<head.reason>>, FALSE, TRUE)
       ELSE IF ~ok /\ head.status \in {404, 405} /\ get.kind = "response"
       THEN IF getOk THEN Background(get.status, <<>>, TRUE, FALSE)
            ELSE IF get.status \notin {401, 403}
                 THEN Background(get.status, <<"HTTP ", ToString(get.status)>>, FALSE, TRUE)
                 ELSE Background(get.status, <<>>, FALSE, FALSE)
       ELSE IF ~ok /\ head.status \notin {401, 403}
            THEN Background(head.status, <<"HTTP ", ToString(head.status)>>, FALSE, TRUE)
            ELSE Background(head.status, <<>>, ok, FALSE)

checkUrlInBackground(url, target) == backgroundFrom(url, target, 0)

\* page.links.filter of the page callback: the links to check and checkedUrls
\* after it
RECURSIVE LinksToCheck(_, _, _)
LinksToCheck(acc, links, crawledUrls) ==
    IF links = <<>> THEN acc
    ELSE LET link == Head(links) IN
         IF link.url \in acc.checked
         THEN LinksToCheck(acc, Tail(links), crawledUrls)
         ELSE LinksToCheck([links |-> IF link.url \in crawledUrls
                                      THEN acc.links ELSE Append(acc.links, link),
                            checked |-> acc.checked \cup {link.url}],
                           Tail(links), crawledUrls)

\* the page callback: smartCrawl hands over a page, and a check of each of its
\* new links is started without being awaited
PageCrawled ==
    /\ scPc = "crawling"
    /\ scFeed # <<>>
    /\ LET page == Head(scFeed)
           crawledUrls == scCrawledUrls \cup {page.url}
           kept == LinksToCheck([links |-> <<>>, checked |-> scCheckedUrls],
                                page.links, crawledUrls)
       IN /\ scCrawledUrls' = crawledUrls
          /\ scCheckedUrls' = kept.checked
          /\ scTotalLinks' = scTotalLinks + Len(page.links)
          /\ scInFlight' = scInFlight \cup
                              {[page |-> page.url, link |-> kept.links[k]] :
                                  k \in DOMAIN kept.links}
    /\ scFeed' = Tail(scFeed)
    /\ scPages' = Append(scPages, Head(scFeed))
    /\ UNCHANGED <<scLinksChecked, scLive, scPc, scSummary>>
    /\ UNCHANGED <<crawlVars, checkVars, smartVars, normVars, spaVars, fetchVars, sitemapVars>>

\* smartCrawl returns: performScan goes on to wait for the checks
CrawlReturns ==
    /\ scPc = "crawling"
    /\ scFeed = <<>>
    /\ scPc' = "waiting"
    /\ UNCHANGED <<scFeed, scCrawledUrls, scCheckedUrls, scInFlight, scLinksChecked,
                   scTotalLinks, scLive, scPages, scSummary>>
    /\ UNCHANGED <<crawlVars, checkVars, smartVars, normVars, spaVars, fetchVars, sitemapVars>>

\* a checkUrlInBackground call settles, and its finally handler counts it
BackgroundSettle(c, target) ==
    /\ c \in scInFlight
    /\ LET r == checkUrlInBackground(c.link.url, target)
       IN scLive' = IF r.live
                    THEN Append(scLive,
                                [url |-> c.link.url, status |-> r.status, message |-> r.message,
                                 occurrences |-> <<[page |-> c.page, text |-> c.link.text,
                                                    type |-> c.link.type]>>])
                    ELSE scLive
    /\ scInFlight' = scInFlight \ {c}
    /\ scLinksChecked' = scLinksChecked + 1
    /\ UNCHANGED <<scFeed, scCrawledUrls, scCheckedUrls, scTotalLinks, scPc, scPages,
                   scSummary>>
    /\ UNCHANGED <<crawlVars, checkVars, smartVars, normVars, spaVars, fetchVars, sitemapVars>>

\* results.summary as compiled after the wait loop
CompileSummary ==
    [totalLinks |-> scTotalLinks,
     linksChecked |-> scLinksChecked,
     linksSkipped |-> scTotalLinks - Cardinality(scCheckedUrls),
     workingLinks |-> scLinksChecked - Len(scLive),
     brokenLinks |-> Len(scLive),
     totalPages |-> Len(scPages)]

\* results.brokenLinks: the property is set to the array scan.liveBrokenLinks
\* itself, so reading it gives what that array holds at the time of the read
ResultsBrokenLinks == scLive

\* the wait loop ends because every registered URL has been counted, and the
\* results are compiled
WaitOver ==
    /\ scPc = "waiting"
    /\ ~(scLinksChecked < Cardinality(scCheckedUrls))
    /\ scPc' = "completed"
    /\ scSummary' = CompileSummary
    /\ UNCHANGED <<scFeed, scCrawledUrls, scCheckedUrls, scInFlight, scLinksChecked,
                   scTotalLinks, scLive, scPages>>
    /\ UNCHANGED <<crawlVars, checkVars, smartVars, normVars, spaVars, fetchVars, sitemapVars>>

\* the wait loop ends because nothing was counted for MAX_NO_PROGRESS_CYCLES
\* seconds, or the activity monitor forced completion; the results are compiled
GiveUp ==
    /\ scPc = "waiting"
    /\ scLinksChecked < Cardinality(scCheckedUrls)
    /\ scPc' = "completed"
    /\ scSummary' = CompileSummary
    /\ UNCHANGED <<scFeed, scCrawledUrls, scCheckedUrls, scInFlight, scLinksChecked,
                   scTotalLinks, scLive, scPages>>
    /\ UNCHANGED <<crawlVars, checkVars, smartVars, normVars, spaVars, fetchVars, sitemapVars>>

\* the pages smartCrawl hands to the page callback
\* a second page that links back to the start page
HomeLinkPage ==
    <<PageData(Url("a", 1, 0, FALSE), <<Ref(normalizeUrl(startUrl), "home")>>, <<>>)>>

ScanFeeds ==
    {<<PageData(normalizeUrl(startUrl), ls, <<>>)>> \o second :
        ls \in RefLists, second \in SecondPages \cup {HomeLinkPage}}

InitScan ==
    /\ CrawlRested
    /\ CheckIdle
    /\ scFeed \in ScanFeeds
    /\ ScanFresh
    /\ scPc = "crawling"
    /\ SmartIdle
    /\ NormIdle
    /\ SpaIdle
    /\ FetchIdle
    /\ SitemapIdle

BackgroundChecks ==
    \E c \in scInFlight : \E target \in TargetMenu(c.link.url) : BackgroundSettle(c, target)

NextScan == PageCrawled \/ CrawlReturns \/ BackgroundChecks \/ WaitOver \/ GiveUp

SpecScan == InitScan /\ [][NextScan]_vars

-----------------------------------------------------------------------------
(* smartCrawl, and checkLinks on the pages it returns *)

\* what discoverFromSitemap may return for the start URL
SitemapPage(p, links) == PageData(Url(startUrl.host, p, 0, FALSE), links, <<>>)
SitemapMenu ==
    { <<>>,
      <<SitemapPage(startUrl.path, <<>>)>>,
      <<SitemapPage(startUrl.path, <<>>),
        SitemapPage(1, <<Ref(Url("b", 1, 0, FALSE), "guide")>>)>>,
      <<SitemapPage(1, <<Ref(Url("b", 2, 0, FALSE), "api")>>),
        [SitemapPage(2, <<>>) EXCEPT !.error = "HTTP 404"],
        SitemapPage(1, <<Ref(Url("b", 2, 0, FALSE), "api")>>)>> }

\* the success criterion of the traditional crawl
successfulPages(ps) == SelectSeq(ps, LAMBDA p : p.error = "")
hasLinks(ps) == \E k \in DOMAIN successfulPages(ps) : successfulPages(ps)[k].linksCount > 0
\* a criterion that does not look at the links of the pages
TraditionalOk_PagesOnly(ps) == Len(ps) > 1
TraditionalOk(ps) == Len(ps) > 1 \/ hasLinks(ps)

\* crawlWebsite has returned: smartCrawl returns its pages or turns to the sitemap
SmartDecide ==
    /\ smPc = "crawl"
    /\ pc = "done"
    /\ IF TraditionalOk(pages)
       THEN /\ smResult' = [pages |-> pages, method |-> "traditional", isSPA |-> FALSE]
            /\ smPc' = "returned"
       ELSE /\ smPc' = "sitemap"
            /\ UNCHANGED smResult
    /\ UNCHANGED smSitemap
    /\ UNCHANGED <<crawlVars, checkVars, scanVars, normVars, spaVars, fetchVars, sitemapVars>>

\* discoverFromSitemap has returned
SitemapSettle(sm) ==
    /\ smPc = "sitemap"
    /\ smSitemap' = sm
    /\ IF Len(sm) > 1
       THEN /\ smResult' = [pages |-> sm, method |-> "sitemap", isSPA |-> TRUE]
            /\ emitted' = emitted \o sm
       ELSE /\ smResult' = [pages |-> pages, method |-> "traditional", isSPA |-> TRUE]
            /\ UNCHANGED emitted
    /\ smPc' = "returned"
    /\ UNCHANGED <<baseHost, visited, toVisit, pages, crawling, fetchCount, settled,
                   served, appended, capSeen, pc>>
    /\ UNCHANGED <<checkVars, scanVars, normVars, spaVars, fetchVars, sitemapVars>>

Sitemap == \E sm \in SitemapMenu : SitemapSettle(sm)

\* the caller hands the pages returned to checkLinks, with their URLs as
\* crawledPages and without callbacks
Handover ==
    /\ smPc = "returned"
    /\ ckPc = "idle"
    /\ ckPages' = smResult.pages
    /\ ckCrawled' = PageUrls(smResult.pages)
    /\ ckPc' = "start"
    /\ UNCHANGED <<ckLinks, ckFiltered, ckSkipped, ckDomains, ckGroups, ckDead, ckDom, ckProbed,
                   ckReport, ckOnProgress, ckChecked, ckOnBroken, ckNotified, ckAnswered,
                   ckNoDns>>
    /\ UNCHANGED <<crawlVars, scanVars, smartVars, normVars, spaVars, fetchVars, sitemapVars>>

NextAll == Next \/ SmartDecide \/ Sitemap \/ Handover \/ NextCheck

SpecAll == Init /\ [][NextAll]_vars

\* the event loop does not stop while something is left to run: a timer that
\* is due fires, a request that is out settles (fetchPage, the DNS lookup and
\* the probes each carry a timeout), a continuation that is ready runs
FairAll == SpecAll /\ WF_vars(NextAll)

-----------------------------------------------------------------------------
(* normalizeUrl on its own: a URL is passed in and every value returned is
   passed in again *)

NormCalls == 2

InitNorm ==
    /\ CrawlRested
    /\ CheckIdle
    /\ ScanIdle
    /\ SmartIdle
    /\ nmIn \in Urls
    /\ nmOut = <<>>
    /\ SpaIdle
    /\ FetchIdle
    /\ SitemapIdle

Normalize ==
    /\ Len(nmOut) < NormCalls
    /\ nmOut' = Append(nmOut, normalizeUrl(IF nmOut = <<>> THEN nmIn ELSE nmOut[Len(nmOut)]))
    /\ UNCHANGED <<crawlVars, checkVars, scanVars, smartVars, nmIn, spaVars, fetchVars, sitemapVars>>

NextNorm == Normalize

SpecNorm == InitNorm /\ [][NextNorm]_vars

-----------------------------------------------------------------------------
(* the helper isSPA on its own *)

MaxSpaPages == 3

\* crawl results as a caller can pass them: null, an object without pages,
\* an object with pages
NoPagesResult == [pages |-> <<>>, kind |-> "nopages"]
ResultOf(ps) == [pages |-> ps, kind |-> "pages"]

\* PageRecords as crawlPage builds them: loaded without links, loaded with a
\* link, loaded with an image only, failed to load
SpaPageMenu ==
    { PageData(startUrl, <<>>, <<>>),
      PageData(startUrl, <<Ref(Url("b", 1, 0, FALSE), "docs")>>, <<>>),
      PageData(startUrl, <<>>, <<Ref(Url("x", 1, 0, FALSE), "logo")>>),
      [PageData(startUrl, <<>>, <<>>) EXCEPT !.error = "Failed to load"] }
SpaPageLists == UNION {[1..n -> SpaPageMenu] : n \in 0..MaxSpaPages}

isSPA(crawlResult) ==
    IF crawlResult.kind # "pages" THEN FALSE
    ELSE /\ Len(successfulPages(crawlResult.pages)) = 1
         /\ successfulPages(crawlResult.pages)[1].linksCount = 0

InitSpa ==
    /\ CrawlRested
    /\ CheckIdle
    /\ ScanIdle
    /\ SmartIdle
    /\ NormIdle
    /\ spArg \in {NullResult, NoPagesResult} \cup {ResultOf(ps) : ps \in SpaPageLists}
    /\ spOut = <<>>
    /\ FetchIdle
    /\ SitemapIdle

CallIsSpa ==
    /\ spOut = <<>>
    /\ spOut' = <<isSPA(spArg)>>
    /\ UNCHANGED <<crawlVars, checkVars, scanVars, smartVars, normVars, spArg, fetchVars, sitemapVars>>

NextSpa == CallIsSpa

SpecSpa == InitSpa /\ [][NextSpa]_vars

-----------------------------------------------------------------------------
(* fetchPage of the crawler and fetchContent of the sitemap crawler: one GET
   request per call, a redirect followed by a call of the function itself *)

MAX_REDIRECTS == 5
MaxFetchPath == 2

FetchUrls == {Url("a", p, 0, FALSE) : p \in 0..MaxFetchPath}

\* what a site does with a GET of the URL u: it answers with a document, the
\* request fails or times out, or it answers 301 with the location v
Replies(u) ==
    {Answer(200, u), NetError("ETIMEDOUT")} \cup {Answer(301, v) : v \in FetchUrls}
Sites == {site \in [FetchUrls -> UNION {Replies(u) : u \in FetchUrls}] :
             \A u \in FetchUrls : site[u] \in Replies(u)}
IsRedirect(reply) ==
    reply.kind = "response" /\ reply.status >= 300 /\ reply.status < 400
        /\ reply.final # NullUrl

InitFetch ==
    /\ CrawlRested
    /\ CheckIdle
    /\ ScanIdle
    /\ SmartIdle
    /\ NormIdle
    /\ SpaIdle
    /\ ftSite \in Sites
    /\ ftKind \in {"fetchPage", "fetchContent"}
    /\ ftUrl = startUrl
    /\ ftHops = 0
    /\ ftPc = "call"
    /\ SitemapIdle

\* a call of fetchPage up to the return of its promise: the redirectCount
\* test, and the request sent
FetchPageCall ==
    /\ ftKind = "fetchPage"
    /\ ftPc = "call"
    /\ ftPc' = IF ftHops > MAX_REDIRECTS THEN "rejected" ELSE "request"
    /\ UNCHANGED <<ftSite, ftKind, ftUrl, ftHops>>
    /\ UNCHANGED <<crawlVars, checkVars, scanVars, smartVars, normVars, spaVars,
                   sitemapVars>>

\* the request of fetchPage ends: the response handler, which calls fetchPage
\* for the location of a redirect, or the error or timeout handler
FetchPageResponse ==
    /\ ftKind = "fetchPage"
    /\ ftPc = "request"
    /\ IF IsRedirect(ftSite[ftUrl])
       THEN ftUrl' = ftSite[ftUrl].final /\ ftHops' = ftHops + 1 /\ ftPc' = "call"
       ELSE /\ ftPc' = IF ftSite[ftUrl].kind = "error" THEN "rejected" ELSE "resolved"
            /\ UNCHANGED <<ftUrl, ftHops>>
    /\ UNCHANGED <<ftSite, ftKind>>
    /\ UNCHANGED <<crawlVars, checkVars, scanVars, smartVars, normVars, spaVars,
                   sitemapVars>>

\* a call of fetchContent up to the return of its promise: the request sent
FetchContentCall ==
    /\ ftKind = "fetchContent"
    /\ ftPc = "call"
    /\ ftPc' = "request"
    /\ UNCHANGED <<ftSite, ftKind, ftUrl, ftHops>>
    /\ UNCHANGED <<crawlVars, checkVars, scanVars, smartVars, normVars, spaVars,
                   sitemapVars>>

\* the request of fetchContent ends: the response handler, which calls
\* fetchContent for the location of a redirect, or the error or timeout handler
FetchContentResponse ==
    /\ ftKind = "fetchContent"
    /\ ftPc = "request"
    /\ IF IsRedirect(ftSite[ftUrl])
       THEN ftUrl' = ftSite[ftUrl].final /\ ftPc' = "call"
       ELSE /\ ftPc' = IF ftSite[ftUrl].kind = "error" THEN "rejected" ELSE "resolved"
            /\ UNCHANGED ftUrl
    /\ UNCHANGED <<ftSite, ftKind, ftHops>>
    /\ UNCHANGED <<crawlVars, checkVars, scanVars, smartVars, normVars, spaVars,
                   sitemapVars>>

NextFetch == FetchPageCall \/ FetchPageResponse \/ FetchContentCall \/ FetchContentResponse

SpecFetch == InitFetch /\ [][NextFetch]_vars

\* a request that is out ends: the site answers it, the socket fails, or the
\* timeout of the request options fires
FairFetch == SpecFetch /\ WF_vars(NextFetch)

-----------------------------------------------------------------------------
(* fetchAllSitemapUrls: the sitemap of the site and the sitemaps it names,
   read one after the other.  Sitemap URLs are numbers, 0 is /sitemap.xml;
   page URLs are numbers too. *)

MaxSitemaps == 3
MaxNested == 2

SitemapUrls == 0..(MaxSitemaps - 1)

\* the sequences of sitemap URLs a sitemap index may name
NestedLists ==
    UNION {[1..k -> SitemapUrls] : k \in 1..MaxNested}

\* what a GET of a sitemap URL gives: a sitemap index naming sitemaps, a
\* sitemap listing pages, a 3xx answer with a location, or a failure
SitemapReplies ==
    {[kind |-> "index", final |-> 0, links |-> ls] : ls \in NestedLists}
    \cup {[kind |-> "urlset", final |-> 0, links |-> ls] : ls \in {<<1>>, <<1, 1>>}}
    \cup {[kind |-> "redirect", final |-> v, links |-> <<>>] : v \in SitemapUrls}
    \cup {[kind |-> "error", final |-> 0, links |-> <<>>]}

SitemapSites == [SitemapUrls -> SitemapReplies]

InitSitemap ==
    /\ CrawlRested
    /\ CheckIdle
    /\ ScanIdle
    /\ SmartIdle
    /\ NormIdle
    /\ SpaIdle
    /\ FetchIdle
    /\ sxSite \in SitemapSites
    /\ sxVisited = {}
    /\ sxStack = <<>>
    /\ sxArg = 0
    /\ sxReq = 0
    /\ sxRet = <<>>
    /\ sxGets = [u \in SitemapUrls |-> 0]
    /\ sxOut = <<>>
    /\ sxPc = "enter"

\* `if (visited.has(sitemapUrl)) return []`
SitemapSeen(url, seen) == url \in seen

\* fetchAllSitemapUrls is entered: the test of visited, and the call of
\* fetchContent
SitemapEnter ==
    /\ sxPc = "enter"
    /\ IF SitemapSeen(sxArg, sxVisited)
       THEN /\ sxRet' = <<>>
            /\ sxPc' = "return"
            /\ UNCHANGED <<sxVisited, sxReq>>
       ELSE /\ sxVisited' = sxVisited \cup {sxArg}
            /\ sxReq' = sxArg
            /\ sxPc' = "call"
            /\ UNCHANGED sxRet
    /\ UNCHANGED <<sxSite, sxStack, sxArg, sxGets, sxOut>>
    /\ UNCHANGED <<crawlVars, checkVars, scanVars, smartVars, normVars, spaVars, fetchVars>>

\* fetchContent sends its request
SitemapRequest ==
    /\ sxPc = "call"
    /\ sxGets' = [sxGets EXCEPT ![sxReq] = Min(@ + 1, 2)]
    /\ sxPc' = "request"
    /\ UNCHANGED <<sxSite, sxVisited, sxStack, sxArg, sxReq, sxRet, sxOut>>
    /\ UNCHANGED <<crawlVars, checkVars, scanVars, smartVars, normVars, spaVars, fetchVars>>

\* the request ends.  A redirect is followed by fetchContent; a failure is
\* caught and the call returns []; a sitemap index starts the for loop over
\* the sitemaps it names; a sitemap returns the URLs it lists
SitemapResponse ==
    /\ sxPc = "request"
    /\ LET reply == sxSite[sxReq] IN
       CASE reply.kind = "redirect" ->
              /\ sxReq' = reply.final
              /\ sxPc' = "call"
              /\ UNCHANGED <<sxStack, sxArg, sxRet>>
         [] reply.kind = "error" ->
              /\ sxRet' = <<>>
              /\ sxPc' = "return"
              /\ UNCHANGED <<sxStack, sxArg, sxReq>>
         [] reply.kind = "index" ->
              /\ sxStack' = Append(sxStack, [queue |-> Tail(reply.links), links |-> <<>>])
              /\ sxArg' = Head(reply.links)
              /\ sxPc' = "enter"
              /\ UNCHANGED <<sxReq, sxRet>>
         [] OTHER ->
              /\ sxRet' = reply.links
              /\ sxPc' = "return"
              /\ UNCHANGED <<sxStack, sxArg, sxReq>>
    /\ UNCHANGED <<sxSite, sxVisited, sxGets, sxOut>>
    /\ UNCHANGED <<crawlVars, checkVars, scanVars, smartVars, normVars, spaVars, fetchVars>>

\* a call has returned: the outermost one ends the run; a nested one hands
\* its URLs to the for loop of its caller, which enters the next sitemap or
\* returns allUrls
SitemapReturn ==
    /\ sxPc = "return"
    /\ IF sxStack = <<>>
       THEN /\ sxOut' = sxRet
            /\ sxPc' = "done"
            /\ UNCHANGED <<sxStack, sxArg, sxRet>>
       ELSE LET top == sxStack[Len(sxStack)]
                allUrls == top.links \o sxRet
            IN IF top.queue = <<>>
               THEN /\ sxStack' = SubSeq(sxStack, 1, Len(sxStack) - 1)
                    /\ sxRet' = allUrls
                    /\ UNCHANGED <<sxArg, sxOut, sxPc>>
               ELSE /\ sxStack' = [sxStack EXCEPT ![Len(sxStack)] =
                                       [queue |-> Tail(top.queue), links |-> allUrls]]
                    /\ sxArg' = Head(top.queue)
                    /\ sxPc' = "enter"
                    /\ UNCHANGED <<sxRet, sxOut>>
    /\ UNCHANGED <<sxSite, sxVisited, sxReq, sxGets>>
    /\ UNCHANGED <<crawlVars, checkVars, scanVars, smartVars, normVars, spaVars, fetchVars>>

NextSitemap == SitemapEnter \/ SitemapRequest \/ SitemapResponse \/ SitemapReturn

SpecSitemap == InitSitemap /\ [][NextSitemap]_vars

\* a request that is out ends (each one carries a timeout), and a
\* continuation that is ready runs
FairSitemap == SpecSitemap /\ WF_vars(NextSitemap)

-----------------------------------------------------------------------------
(* What the claims speak of *)

Recorded(n, recs) == {i \in DOMAIN recs : recs[i].url = n}
HasRecord(n) == Recorded(n, pages) # {}
CapReached == Cardinality(visited) >= MAX_PAGES

\* the pages that hold a reference whose canonical target is n
Referrers(n) == {i \in DOMAIN pages :
                   \E k \in DOMAIN pages[i].links : normalizeUrl(pages[i].links[k].url) = n}

\* the a[href] targets of the document the site served for n, as canonical URLs
ServedTargets(n) ==
    IF served[n] = <<>> THEN {}
    ELSE LET r == served[n][1] IN
         IF r.kind = "resolve" /\ r.html
         THEN {normalizeUrl(toAbsoluteUrl(r.hrefs[k], n)) : k \in DOMAIN r.hrefs} \ {NullUrl}
         ELSE {}

\* the same-origin URLs the seed reaches through a[href], over what the site served
RECURSIVE ReachFrom(_)
ReachFrom(S) ==
    LET more == {t \in UNION {ServedTargets(n) : n \in S} : t.host = startUrl.host} IN
    IF more \subseteq S THEN S ELSE ReachFrom(S \cup more)
Reachable == ReachFrom({normalizeUrl(startUrl)})

\* no response of the site ended, after redirects, on another hostname
SameOriginSite ==
    \A n \in Canon : \A i \in DOMAIN served[n] :
        served[n][i].final = NullUrl \/ served[n][i].final.host = n.host

\* C1: pages, and the sequence of onPageCrawled emissions, hold at most one
\* PageRecord per canonical URL, however many pages link to that URL.
C1_OneRecordPerUrl ==
    /\ \A i, j \in DOMAIN pages : pages[i].url = pages[j].url => i = j
    /\ \A i, j \in DOMAIN emitted : emitted[i].url = emitted[j].url => i = j
    /\ \A i \in DOMAIN pages : pages[i].url = normalizeUrl(pages[i].url)

\* a URL with a PageRecord that two other pages link to, in two different spellings
C1_Witness ==
    /\ C1_OneRecordPerUrl
    /\ \E n \in Canon :
         /\ HasRecord(n)
         /\ Cardinality(Referrers(n)) >= 2
         /\ \E i \in Referrers(n) : \E k \in DOMAIN pages[i].links :
               pages[i].links[k].url # n /\ normalizeUrl(pages[i].links[k].url) = n

\* C2: a canonical URL enters visited once, in the step that dequeues it for
\* its fetch, never leaves, is fetched at most once, and never has two fetches
\* in flight.
C2_State ==
    \A n \in Canon :
        /\ fetchCount[n] <= 1
        /\ InFlight(n) \in {0, 1}
        /\ (n \in visited) = (fetchCount[n] = 1)
        /\ (n \in crawling) = (InFlight(n) = 1)
C2_Step ==
    /\ visited \subseteq visited'
    /\ \A n \in visited' \ visited :
         /\ fetchCount'[n] = fetchCount[n] + 1
         /\ \E i \in 1..(Len(toVisit) - Len(toVisit')) : normalizeUrl(toVisit[i]) = n
C2_VisitedOnce == [](C2_State) /\ [][C2_Step]_vars

\* a URL that two pages discovered is in flight once, while another spelling
\* of it still waits in toVisit
C2_Witness ==
    \E n \in Canon :
        /\ InFlight(n) = 1
        /\ Cardinality(Referrers(n)) >= 2
        /\ \E k \in DOMAIN toVisit : normalizeUrl(toVisit[k]) = n

\* C3 as claimed: on a same-origin site with fewer pages than the cap, at the
\* return every reachable same-origin URL was fetched and has a PageRecord.
C3_Original ==
    (pc = "done" /\ SameOriginSite /\ Cardinality(Reachable) < MAX_PAGES)
        => \A n \in Reachable : fetchCount[n] >= 1 /\ HasRecord(n)

\* C3 amended: ... was fetched, and has a PageRecord unless its response was
\* not an HTML document.
C3_Completeness ==
    (pc = "done" /\ SameOriginSite /\ Cardinality(Reachable) < MAX_PAGES)
        => \A n \in Reachable :
              /\ fetchCount[n] >= 1
              /\ settled[n] >= 1
              /\ (served[n][1].kind = "reject" \/ served[n][1].html) => HasRecord(n)

C3_Witness ==
    /\ pc = "done" /\ SameOriginSite
    /\ Cardinality(Reachable) = MAX_PAGES - 1
    /\ C3_Completeness
    /\ \E n \in Reachable : ~HasRecord(n)
    /\ \E n \in Reachable : HasRecord(n) /\ n # startUrl

\* C4: when every started fetch settles, crawlWebsite returns; at the return
\* nothing is in flight and toVisit is empty or the page cap was reached; and
\* while URLs are pending, slots are free and the cap is not reached, the main
\* loop can start a fetch.
C4_AtReturn ==
    pc = "done" =>
        /\ crawling = {}
        /\ InFlightTotal = 0
        /\ (toVisit = <<>> \/ CapReached)
C4_NoDeadlock ==
    (pc = "loop" /\ toVisit # <<>> /\ InFlightTotal < CRAWL_CONCURRENCY /\ ~CapReached)
        => ENABLED <<MainLoop>>_vars
C4_Returns == <>(pc = "done") /\ [](C4_AtReturn) /\ [](C4_NoDeadlock)

\* the crawl returned at the page cap with URLs still pending
C4_Witness == pc = "done" /\ capSeen /\ toVisit # <<>> /\ crawling = {}

\* C5: at most CRAWL_CONCURRENCY page fetches are in flight.
C5_BoundedInFlight ==
    /\ InFlightTotal <= CRAWL_CONCURRENCY
    /\ Cardinality(crawling) <= CRAWL_CONCURRENCY

\* every slot is taken while URLs wait
C5_Witness == InFlightTotal = CRAWL_CONCURRENCY /\ toVisit # <<>> /\ pc = "loop"

\* whether the fetch of n ended in a PageRecord-less way the code intends:
\* a response that is not an HTML document
NotHtml(n) == served[n] # <<>> /\ served[n][1].kind = "resolve" /\ ~served[n][1].html

AllSettledWithRecords(sv, fc, st, pg) ==
    \A n \in Canon : st[n] = fc[n] /\ (fc[n] > 0 => Recorded(n, pg) # {})

C7_Claim ==
    \A n \in Canon : \A i \in DOMAIN served[n] :
        (served[n][i].kind = "reject" \/ served[n][i].status \notin 200..299) =>
            /\ Cardinality(Recorded(n, pages)) = 1
            /\ \A k \in Recorded(n, pages) : pages[k].error # "" /\ pages[k].links = <<>>
            /\ fetchCount[n] = 1

\* C8: a failed fetch never aborts the crawl: the crawl does not reject, every
\* URL taken from toVisit is fetched, and after a failure crawlWebsite still
\* returns, with toVisit emptied unless the cap was reached first.
HasFailure == \E i \in DOMAIN pages : pages[i].error # ""
Pending(u) == InSeq(u, toVisit)
Dequeued == {toVisit[i] : i \in 1..(Len(toVisit) - Len(toVisit'))}
C8_FailureDoesNotAbort ==
    /\ [](pc # "rejected")
    /\ [][\A u \in Dequeued : fetchCount'[normalizeUrl(u)] >= 1]_vars
    /\ (HasFailure ~> (pc = "done" /\ (toVisit = <<>> \/ CapReached)))

\* after a failure, pages that were not yet started have been fetched and the
\* crawl has returned
C8_Witness ==
    /\ pc = "done"
    /\ \E i \in DOMAIN pages :
         /\ pages[i].error # ""
         /\ Len(pages) >= i + CRAWL_CONCURRENCY
         /\ pages[Len(pages)].error = ""

\* C9 as claimed: when the seed fetch was redirected to another hostname, that
\* hostname is the crawl origin from then on, and a link extracted from then
\* on is pushed on toVisit only if its hostname is that one, and is visited
\* or pending after the step if its hostname is that one.
SeedRedirectHost ==
    LET n == normalizeUrl(startUrl) IN
    IF served[n] # <<>> /\ served[n][1].kind = "resolve" /\ served[n][1].final # NullUrl
       /\ served[n][1].final.host # n.host
    THEN served[n][1].final.host ELSE ""
C9_Claim ==
    SeedRedirectHost # "" =>
        /\ baseHost = SeedRedirectHost
        /\ \A k \in DOMAIN appended : appended[k].host = SeedRedirectHost
        /\ (pages # <<>> /\ appended # <<>>) =>
              \A k \in DOMAIN pages[Len(pages)].links :
                 LET l == pages[Len(pages)].links[k] IN
                 (l.type = "link" /\ l.url.host = SeedRedirectHost)
                     => (normalizeUrl(l.url) \in visited \/ InSeq(l.url, toVisit))


\* C10: no probe is issued for a reference whose normalized target the crawl
\* has visited, and every such reference is counted as skipped, also when it
\* differs from the visited URL only by a fragment or a trailing slash
C10_Claim ==
    /\ \A k \in DOMAIN ckProbed : normalizeUrl(ckProbed[k]) \notin ckCrawled
    /\ ckPc \in {"dns", "domains", "done"} =>
          ckSkipped = Cardinality({k \in DOMAIN ckLinks :
                                      normalizeUrl(ckLinks[k].url) \in ckCrawled})

-----------------------------------------------------------------------------
(* What the claims about checkLinks speak of *)

\* what checkUrl answered for a URL whose check has settled
Settled == DOMAIN ckAnswered
Result(u) == checkUrl(u, ckAnswered[u])

\* the lists of checkLinks as they stand: the report's once it is assembled,
\* the domains' own until then
BrokenSoFar ==
    IF ckPc = "done" THEN ckReport.brokenLinks
    ELSE ckReport.brokenLinks \o Merge(ckDomains, ckDom, "broken")
WarningsSoFar ==
    IF ckPc = "done" THEN ckReport.warnings ELSE Merge(ckDomains, ckDom, "warnings")
RedirectsSoFar ==
    IF ckPc = "done" THEN ckReport.redirects ELSE Merge(ckDomains, ckDom, "redirects")
EntriesFor(list, u) == {k \in DOMAIN list : list[k].url = u}

HeadAnswers(u) ==
    {ckAnswered[u].head[k] : k \in 1..Attempts(u, ckAnswered[u])}
ErrorStatus(st) == st >= 400 /\ st < 600 /\ st \notin {401, 403}

UrlsOn(d) ==
    {ckFiltered[k].url : k \in {j \in DOMAIN ckFiltered : getDomain(ckFiltered[j].url) = d}}

\* C13: for a hostname whose DNS lookup failed no checkUrl is issued for any
\* URL on it, and each of its URLs has one entry in the broken-links list,
\* with a message that names the DNS failure, and none in the other lists
C13_DeadDomainNotProbed ==
    \A d \in ckNoDns :
        /\ \A k \in DOMAIN ckProbed : getDomain(ckProbed[k]) # d
        /\ \A u \in Settled : getDomain(u) # d
        /\ \A u \in UrlsOn(d) :
              /\ Cardinality(EntriesFor(BrokenSoFar, u)) = 1
              /\ \A k \in EntriesFor(BrokenSoFar, u) :
                    MessageIncludes(BrokenSoFar[k].message, "DNS lookup failed: ")
              /\ EntriesFor(WarningsSoFar, u) = {}
              /\ EntriesFor(RedirectsSoFar, u) = {}

\* checkLinks has returned after the lookup of a hostname with several URLs
\* failed while another hostname was probed
C13_Witness ==
    /\ ckPc = "done"
    /\ \E d \in ckNoDns : Cardinality(UrlsOn(d)) >= 2
    /\ ckProbed # <<>>

\* the checks of a hostname that have settled, by position in its list, and
\* whether the one at position k ended in a transport-level failure
SettledOn(d) == ckDom[d].checked
TransportFailure(d, k) == Result(ckGroups[d][k].url).status = 0

\* the checks at positions j - CIRCUIT_BREAKER_THRESHOLD + 1 .. j of the
\* hostname all ended in transport-level failure
TrippedAt(d, j) ==
    /\ j >= CIRCUIT_BREAKER_THRESHOLD
    /\ j <= SettledOn(d)
    /\ \A k \in (j - CIRCUIT_BREAKER_THRESHOLD + 1)..j : TransportFailure(d, k)
Remaining(d, j) == {ckGroups[d][k].url : k \in (j + 1)..Len(ckGroups[d])}
UnableToVerify(v) ==
    v.status = 0 /\ MessageIncludes(v.message, "Unable to verify (domain rate limited)")

\* C14: once CIRCUIT_BREAKER_THRESHOLD consecutive checks on a hostname have
\* ended in transport-level failure, no checkUrl is ever issued again for a URL
\* of that hostname, and when the hostname's checking has ended every
\* remaining URL of it has one 'unable to verify' warning and no broken entry
C14_CircuitStaysOpen ==
    \A d \in CkHosts : \A j \in 1..Len(ckGroups[d]) :
        TrippedAt(d, j) =>
            /\ SettledOn(d) = j
            /\ \A u \in Remaining(d, j) :
                  /\ ~InSeq(u, ckProbed)
                  /\ u \notin Settled
                  /\ EntriesFor(BrokenSoFar, u) = {}
                  /\ ckDom[d].at = "done" =>
                        /\ Cardinality(EntriesFor(WarningsSoFar, u)) = 1
                        /\ \A k \in EntriesFor(WarningsSoFar, u) :
                              UnableToVerify(WarningsSoFar[k])

\* checkLinks has returned after a circuit opened with a URL still to check,
\* while some check succeeded
C14_Witness ==
    /\ ckPc = "done"
    /\ \E d \in CkHosts : \E j \in 1..Len(ckGroups[d]) :
          /\ TrippedAt(d, j)
          /\ Remaining(d, j) # {}
          /\ ckDom[d].circuitBroken
    /\ \E u \in Settled : Result(u).ok

\* the link checks in flight for a hostname: the checkUrl calls of checkLinks
\* issued and not settled, and the background checks of performScan
CheckInFlight(d) ==
    Cardinality({k \in DOMAIN ckProbed : getDomain(ckProbed[k]) = d})
        - Cardinality({u \in Settled : getDomain(u) = d})
ScanInFlight(d) == Cardinality({c \in scInFlight : getDomain(c.link.url) = d})

\* C15: at any moment at most one link check is in flight per target hostname
C15_Claim == \A d \in CkHosts : CheckInFlight(d) + ScanInFlight(d) <= 1

\* the references to the URL u in the pages handed to checkLinks, in document
\* order: page, anchor text and kind of each
RECURSIVE RefsIn(_, _, _)
RefsIn(page, links, u) ==
    IF links = <<>> THEN <<>>
    ELSE (IF Head(links).url = u
          THEN <<[page |-> page, text |-> Head(links).text, type |-> Head(links).type]>>
          ELSE <<>>) \o RefsIn(page, Tail(links), u)
RECURSIVE RefsTo(_, _)
RefsTo(ps, u) ==
    IF ps = <<>> THEN <<>>
    ELSE RefsIn(Head(ps).url, Head(ps).links, u) \o RefsTo(Tail(ps), u)
ReferencedUrls ==
    UNION {{ckPages[i].links[k].url : k \in DOMAIN ckPages[i].links} : i \in DOMAIN ckPages}

\* the verdict entries: broken links, warnings and redirects
VerdictEntries(list, u) == {list[k] : k \in EntriesFor(list, u)}
VerdictsFor(u) ==
    VerdictEntries(BrokenSoFar, u) \cup VerdictEntries(WarningsSoFar, u)
        \cup VerdictEntries(RedirectsSoFar, u)
VerdictCount(u) ==
    Cardinality(EntriesFor(BrokenSoFar, u)) + Cardinality(EntriesFor(WarningsSoFar, u))
        + Cardinality(EntriesFor(RedirectsSoFar, u))

\* C16: checkLinks has at most one verdict entry per URL, the URL taken as
\* the pages spell it, and the occurrences of the entry are the references
\* to that URL across all pages, one element each
C16_OneVerdictPerUrl ==
    /\ \A u \in ReferencedUrls :
          /\ VerdictCount(u) <= 1
          /\ \A v \in VerdictsFor(u) : v.occurrences = RefsTo(ckPages, u)
    /\ \A k \in DOMAIN BrokenSoFar : BrokenSoFar[k].url \in ReferencedUrls
    /\ \A k \in DOMAIN WarningsSoFar : WarningsSoFar[k].url \in ReferencedUrls
    /\ \A k \in DOMAIN RedirectsSoFar : RedirectsSoFar[k].url \in ReferencedUrls

\* checkLinks has returned a verdict on a URL that two pages refer to
C16_Witness ==
    /\ ckPc = "done"
    /\ \E u \in ReferencedUrls : \E v \in VerdictsFor(u) :
          /\ Len(v.occurrences) >= 2
          /\ v.occurrences[1].page # v.occurrences[2].page

\* the fetches of the crawl that were rejected, and the record each left
RejectedFetches == {n \in Canon : \E k \in DOMAIN served[n] : served[n][k].kind = "reject"}
CarriesError(n) == \E i \in DOMAIN pages : pages[i].url = n /\ pages[i].error # ""

\* the links checkLinks set out to check whose check did not end well: the
\* lookup of the hostname failed, the probe was answered with an error or
\* not at all, or the circuit was open
CheckedUrls == {ckFiltered[k].url : k \in DOMAIN ckFiltered}
EndedWell(u) == u \in Settled /\ Result(u).ok
BrokenOrWarned(u) ==
    /\ Cardinality(EntriesFor(BrokenSoFar, u)) + Cardinality(EntriesFor(WarningsSoFar, u)) = 1
    /\ EntriesFor(RedirectsSoFar, u) = {}

Reported ==
    /\ ckPc = "done"
    /\ ckReport.totalLinks = Len(ckLinks)
    /\ smResult.method = "traditional" => ckPages = pages

IsOkOutcome(u) == EndedWell(u) /\ VerdictCount(u) = 0
HasOneOutcome(u) ==
    /\ VerdictCount(u) <= 1
    /\ VerdictCount(u) = 0 => IsOkOutcome(u)
    /\ EndedWell(u) => EntriesFor(BrokenSoFar, u) = {} /\ EntriesFor(WarningsSoFar, u) = {}

C19_Idempotent == Len(nmOut) >= 2 => nmOut[2] = nmOut[1]

\* smartCrawl has returned / what the traditional crawl and the sitemap gave
SmartReturned == smPc = "returned"
SinglePageNoLinks == Len(pages) = 1 /\ pages[1].linksCount = 0
SitemapHasMany == Len(smSitemap) > 1
SitemapResult == [pages |-> smSitemap, method |-> "sitemap", isSPA |-> TRUE]

AtMostOnePageNoLinks == Len(pages) <= 1 /\ ~hasLinks(pages)
OnePageZeroLinks ==
    spArg.kind = "pages" /\ Len(spArg.pages) = 1 /\ spArg.pages[1].linksCount = 0

\* C21: isSPA returns true whenever the result consists of exactly one page
\* with zero links, also when that page carries a fetch error, and false for
\* a null or empty result, for several pages and for a page that has links.
C21_IsSpaOnePageZeroLinks == spOut # <<>> => (spOut[1] <=> OnePageZeroLinks)

\* checkDomainLinks run to its return on the links of one hostname, each URL
\* behaving as the world w says
RECURSIVE RunDomain(_, _, _)
RunDomain(st, links, w) ==
    IF st.at = "probe"
    THEN RunDomain(AfterProbe(st, links, checkUrl(links[st.i].url, w[links[st.i].url])), links, w)
    ELSE IF st.at = "delay" THEN RunDomain(AfterDelay(st, links), links, w)
    ELSE st

RECURSIVE SumChecked(_, _)
SumChecked(domains, dom) ==
    IF domains = <<>> THEN 0 ELSE dom[Head(domains)].checked + SumChecked(Tail(domains), dom)

\* checkLinks run to its return on the pages ps
RunCheckLinks(ps, crawledPages, dead, onProgress, w) ==
    LET links == CollectLinks(<<>>, ps)
        filtered == FilterLinks(links, crawledPages)
        domains == DomainsOf(filtered, <<>>)
        live == LiveDomains(domains, dead)
        groups == [d \in CkHosts |-> GroupOf(filtered, d)]
        deadDomainLinks == DeadLinks(domains, dead, groups)
        dom == [d \in CkHosts |->
                  IF InSeq(d, live)
                  THEN RunDomain([NoDomain EXCEPT !.i = 1, !.at = "probe"], groups[d], w)
                  ELSE NoDomain]
        broken == deadDomainLinks \o Merge(live, dom, "broken")
        redirects == Merge(live, dom, "redirects")
        warnings == Merge(live, dom, "warnings")
        checked == Len(deadDomainLinks) + (IF onProgress THEN SumChecked(live, dom) ELSE 0)
    IN [warnings |-> warnings, redirects |-> redirects, totalLinks |-> Len(links),
        linksChecked |-> checked + (Len(links) - Len(filtered)),
        linksSkipped |-> Len(links) - Len(filtered),
        workingLinks |-> Len(links) - Len(broken) - Len(redirects) - Len(warnings),
        brokenLinks |-> broken]

\* the content of a report: its lists and the occurrences of each entry as sets
AsSet(entries) ==
    {[entries[k] EXCEPT !.occurrences = {@[j] : j \in DOMAIN @}] : k \in DOMAIN entries}
Content(report) ==
    [report EXCEPT !.warnings = AsSet(@), !.redirects = AsSet(@), !.brokenLinks = AsSet(@)]

Reverse(q) == [k \in DOMAIN q |-> q[Len(q) + 1 - k]]

\* the worlds that agree with the answers seen and give every other checked
\* URL one of the behaviours it may have
RECURSIVE WorldsFrom(_, _)
WorldsFrom(w, rest) ==
    IF rest = {} THEN {w}
    ELSE LET u == CHOOSE x \in rest : TRUE
         IN UNION {WorldsFrom(w @@ (u :> t), rest \ {u}) : t \in TargetMenu(u)}
Worlds == WorldsFrom(ckAnswered, CheckedUrls \ DOMAIN ckAnswered)

\* the report is the one checkLinks computes whatever the order in which the
\* checks of different hostnames completed
SameForAnyCompletionOrder ==
    ckPc = "done" =>
        \A w \in Worlds :
            Content(RunCheckLinks(ckPages, ckCrawled, ckNoDns, ckOnProgress, w)) = Content(ckReport)

\* C22: the content of the final report (the broken, warning and redirect
\* verdicts with their occurrences, and the summary counts) does not depend
\* on the order in which the page records arrive: with the same behaviour of
\* every URL, the pages in the opposite order give the same content.
C22_OrderIndependent ==
    ckPc = "done" =>
        \A w \in Worlds :
            Content(RunCheckLinks(Reverse(ckPages), ckCrawled, ckNoDns, ckOnProgress, w))
                = Content(ckReport)

\* the number of checks of hostname d, counted back from its k-th, that ended
\* in a transport-level failure one after the other
RECURSIVE FailuresInARow(_, _)
FailuresInARow(d, k) ==
    IF k = 0 \/ ~TransportFailure(d, k) THEN 0 ELSE 1 + FailuresInARow(d, k - 1)

HeadRejected(u) ==
    /\ ckAnswered[u].head[1].kind = "response"
    /\ ckAnswered[u].head[1].status \in {404, 405}
GetSucceeds(u) == checkUrlWithMethod(u, ckAnswered[u].get[1]).ok

\* C24: when the HEAD probe of a URL is answered with 404 or 405, checkUrl
\* issues a GET for the URL before it decides, and the link is reported as
\* ok if that GET succeeds.
C24_RejectedHeadFallsBackToGet ==
    \A u \in Settled :
        HeadRejected(u) =>
            /\ GetRequests(u, ckAnswered[u]) >= 1
            /\ GetSucceeds(u) => Result(u).ok

\* C25: during the check of one URL the GET fallback is issued at most once,
\* however many times the HEAD request is retried.
C25_GetIssuedAtMostOnce == \A u \in Settled : GetRequests(u, ckAnswered[u]) <= 1

ProbedPages == {c \in scInFlight : normalizeUrl(c.link.url) \in scCrawledUrls}

\* C27: in the pipelined scan no link check is made for a link that points
\* to a page the crawler fetches as a page, whether the page is fetched
\* before or after the page that holds the link is handed over.
C27_CrawledPageNeverProbed == ProbedPages = {}

\* the pages of the scan that hold a reference to the URL u
PagesReferencing(u) ==
    {scPages[i].url : i \in {j \in DOMAIN scPages :
                                \E k \in DOMAIN scPages[j].links : scPages[j].links[k].url = u}}
OccurrencePages(entry) == {entry.occurrences[k].page : k \in DOMAIN entry.occurrences}
ListedOnce(list, u) == Cardinality({k \in DOMAIN list : list[k].url = u}) = 1

\* C28: in the final report of the pipelined scan each broken link appears
\* once, and its occurrences name every page that references it.
C28_BrokenOnceWithEveryPage ==
    scPc = "completed" =>
        \A k \in DOMAIN scLive :
            /\ ListedOnce(scLive, scLive[k].url)
            /\ OccurrencePages(scLive[k]) = PagesReferencing(scLive[k].url)

\* the fetch is caught in a redirect loop: from the URL under way the site
\* answers with one redirect after the other
RECURSIVE RedirectsFor(_, _)
RedirectsFor(u, n) ==
    n = 0 \/ (IsRedirect(ftSite[u]) /\ RedirectsFor(ftSite[u].final, n - 1))
RedirectLoop == ftPc # "idle" /\ RedirectsFor(ftUrl, Cardinality(FetchUrls))

\* C29: every page fetch, fetchPage of the crawler and fetchContent of the
\* sitemap crawler alike, comes to an end, and in a redirect loop it ends
\* rejected, which makes the error record of the URL.
C29_RedirectLoopEndsFetch ==
    <>(ftPc = "rejected" \/ (ftPc = "resolved" /\ ~RedirectLoop))

RecordsOf(n) == Cardinality(Recorded(n, pages))

\* C30 as claimed: when crawlWebsite returns, every URL of visited has
\* exactly one PageRecord in pages.
C30_Original == pc = "done" => \A n \in visited : RecordsOf(n) = 1

\* C30 amended: when crawlWebsite returns, every URL of visited has exactly
\* one PageRecord in pages, whether its fetch succeeded or failed, unless the
\* response was not an HTML document, and then it has none; pages holds no
\* record of a URL outside visited.
C30_OneRecordPerVisited ==
    pc = "done" =>
        /\ \A n \in visited : RecordsOf(n) = (IF NotHtml(n) THEN 0 ELSE 1)
        /\ \A i \in DOMAIN pages : pages[i].url \in visited
C30_Witness ==
    /\ pc = "done"
    /\ \E n \in visited : NotHtml(n)
    /\ \E i \in DOMAIN pages : pages[i].error # ""
    /\ \E i \in DOMAIN pages : pages[i].error = ""
-----------------------------------------------------------------------------
(* The pending queue *)

PendingCanon == [i \in DOMAIN toVisit |-> normalizeUrl(toVisit[i])]
NoTwoPendingAlike ==
    \A i, j \in DOMAIN toVisit : i # j => PendingCanon[i] # PendingCanon[j]
NoPendingVisited == \A i \in DOMAIN toVisit : PendingCanon[i] \notin visited

\* C31: a reference is appended to the pending queue only if its canonical
\* URL is not visited, in flight or pending: the queue never holds two entries
\* with the same canonical URL, nor an entry whose canonical URL is visited.
C31_PendingIsCanonicallyFresh ==
    /\ \A k \in DOMAIN appended :
          /\ normalizeUrl(appended[k]) \notin visited \cup crawling
          /\ \A i \in DOMAIN toVisit :
                PendingCanon[i] = normalizeUrl(appended[k]) => toVisit[i] = appended[k]
    /\ NoTwoPendingAlike
    /\ NoPendingVisited

-----------------------------------------------------------------------------
(* The page callback *)

\* C32: onPageCrawled is invoked exactly once for each PageRecord, in the step
\* that ends the page's fetch and before crawlWebsite returns: the emissions
\* are the records of pages, one for one.
C32_OneEmissionPerRecord ==
    /\ Len(emitted) = Len(pages)
    /\ \A i \in DOMAIN pages : emitted[i] = pages[i]

\* crawlWebsite has returned records of a page that loaded and of one that failed
C32_Witness ==
    /\ pc = "done"
    /\ C32_OneEmissionPerRecord
    /\ \E i, j \in DOMAIN emitted : emitted[i].error = "" /\ emitted[j].error # ""

-----------------------------------------------------------------------------
(* The report of a completed scan *)

ScanReport == <<scSummary, ResultsBrokenLinks>>

\* C33: once the status of a scan is 'completed', its report (the broken-link
\* list and the summary counts) never changes again, also when link checks
\* were still running when the no-progress fallback completed the scan.
C33_CompletedReportIsFrozen ==
    [][scPc = "completed" => ScanReport' = ScanReport]_vars

-----------------------------------------------------------------------------
(* A change of the crawl origin *)

IsPrefix(q, r) == Len(q) <= Len(r) /\ SubSeq(r, 1, Len(q)) = q
Dequeued34 == SubSeq(toVisit, 1, Len(toVisit) - Len(toVisit'))

\* C34: when the crawl origin changes after a redirect, the URLs already in
\* the pending queue are left as they are, and a dequeued URL is fetched
\* whatever its hostname; the links found in that response and later are
\* classified against the new origin.
C34_OriginChangeKeepsPending ==
    [][/\ baseHost' # baseHost => IsPrefix(toVisit, toVisit')
       /\ \A k \in DOMAIN appended' : appended'[k].host = baseHost'
       /\ Len(toVisit') < Len(toVisit) =>
             \A i \in DOMAIN Dequeued34 : fetchCount'[normalizeUrl(Dequeued34[i])] > 0]_vars

\* the origin went from a to b and no page of b has settled since, so b is
\* still the origin and every link appended since is on b; as many pages of a
\* are in flight as the concurrency allows, while the redirected page was
\* itself in flight when the origin changed: one of them was pending then
C34_Witness ==
    /\ baseHost = "b"
    /\ \A n \in Canon : n.host = "b" => settled[n] = 0
    /\ \E n \in Canon : \E i \in DOMAIN served[n] :
          n # normalizeUrl(startUrl) /\ served[n][i].kind = "resolve" /\ served[n][i].final.host = "b"
    /\ Cardinality({n \in crawling : n.host = "a"}) >= CRAWL_CONCURRENCY

-----------------------------------------------------------------------------
(* The pages smartCrawl returns *)

NoTwoRecordsAlike(ps) == \A i, j \in DOMAIN ps : ps[i].url = ps[j].url => i = j

\* C35: the pages returned by smartCrawl hold no two records with the same
\* URL, also when they come from the sitemap.
C35_ReturnedPagesAreDistinct ==
    smPc = "returned" => NoTwoRecordsAlike(smResult.pages)

-----------------------------------------------------------------------------
(* The page cap *)

\* C36: the number of URLs ever marked visited (page fetches started) never
\* exceeds MAX_PAGES, whatever the concurrency limit and the order in which
\* the fetches complete.
C36_VisitedWithinCap == Cardinality(visited) <= MAX_PAGES

-----------------------------------------------------------------------------
(* The hostnames the crawl fetches from *)

SeedOrigin == IF SeedRedirectHost # "" THEN SeedRedirectHost ELSE startUrl.host
Fetched == {n \in Canon : fetchCount[n] > 0}

\* C37: every URL the crawler fetches has the hostname of the seed or the
\* hostname the seed fetch was redirected to, and a redirect met while
\* fetching a later page does not change the crawl origin.
C37_FetchesStayOnSeedOrigin ==
    /\ \A n \in Fetched : n.host \in {startUrl.host, SeedOrigin}
    /\ baseHost = SeedOrigin

-----------------------------------------------------------------------------
(* The wait loop of the scan *)

\* C38: once the crawl has finished and every started background check has
\* settled, the counter of completed checks equals the number of URLs
\* registered for checking, so that the wait loop can leave through its
\* normal condition.
C38_CounterReachesRegistered ==
    (scPc \in {"waiting", "completed"} /\ scInFlight = {})
        => scLinksChecked = Cardinality(scCheckedUrls)

-----------------------------------------------------------------------------
(* The count of links checked *)

\* C39: in the report of checkLinks, summary.linksChecked is the number of
\* unique links skipped as crawled pages plus the links marked as DNS
\* failures plus the links probed, with or without a progress callback.
C39_LinksCheckedAddsUp ==
    ckPc = "done" =>
        ckReport.linksChecked = ckSkipped + Len(ckDead) + Len(ckProbed)

-----------------------------------------------------------------------------
(* Reading the sitemaps *)

\* C40: fetchAllSitemapUrls fetches each sitemap URL at most once, and it
\* terminates, also when sitemap index files name each other in a cycle.
C40_EachSitemapOnceAndTerminates ==
    /\ [](\A u \in SitemapUrls : sxGets[u] <= 1)
    /\ <>(sxPc = "done")

====
